---- MODULE Spec2Model ----
(***************************************************************************)
(* State-machine model of the wasm-viz chart engines                       *)
(* (src/wasm-viz/src/charts): the network graph with its force simulation  *)
(* and pointer handlers, and the data assignment of the histogram, the     *)
(* progress tracker, the variance heatmap and the timeline.                *)
(*                                                                         *)
(* One behaviour follows one chart instance: New(k) constructs a chart of  *)
(* kind k, after which only that chart's operations are called.  The       *)
(* records of the other kinds keep their initial value.                    *)
(*                                                                         *)
(* f64 values are fixed-point integers with SCALE units per 1.0; NaN is a  *)
(* sentinel that every arithmetic operator propagates as IEEE-754 does.    *)
(***************************************************************************)
EXTENDS Integers, Sequences, FiniteSets, TLC

VARIABLES
    kind,             \* which chart type was constructed ("none" before new)
    config,           \* ChartConfig of the instance
    net,              \* NetworkGraphChart fields
    hist,             \* ScoreDistributionChart fields
    prog,             \* ProgressTrackerChart fields
    heat,             \* VarianceHeatmapChart fields
    tl,               \* TimelineChart fields
    seed,             \* thread-local SEED of rand_float (8 bytes, little-endian)
    ret,              \* the last call: [op, arg, val]
    panicked,         \* a handler hit a Rust panic (index out of bounds)
    halt,             \* history: why simulation_running was last cleared
    loads,            \* number of successful set_data calls so far
    steps,            \* number of physics steps performed so far
    events            \* number of pointer events handled so far

vars == <<kind, config, net, hist, prog, heat, tl, seed, ret,
          panicked, halt, loads, steps, events>>

----------------------------------------------------------------------------
(* Bounds of the model *)

MaxNodes == 2
MaxLoads == 2
MaxSteps == 1
MaxEvents == 2
\* steps of the runs that follow one isolated node until it settles
MaxTicks == 60

----------------------------------------------------------------------------
(* f64 as fixed point *)

SCALE == 100
NaN == -2000000000
None == -1
NoValue == -2

Abs(a) == IF a < 0 THEN -a ELSE a
Min(a, b) == IF a < b THEN a ELSE b
Max(a, b) == IF a > b THEN a ELSE b
Sgn(a) == IF a < 0 THEN -1 ELSE 1

\* a / b rounded to nearest, b > 0
Rnd(a, b) == Sgn(a) * ((Abs(a) + (b \div 2)) \div b)

IsNaN(a) == a = NaN

FAdd(a, b) == IF IsNaN(a) \/ IsNaN(b) THEN NaN ELSE a + b
FSub(a, b) == IF IsNaN(a) \/ IsNaN(b) THEN NaN ELSE a - b
FMul(a, b) == IF IsNaN(a) \/ IsNaN(b) THEN NaN ELSE Rnd(a * b, SCALE)
\* a / b for b # 0
FDiv(a, b) == IF IsNaN(a) \/ IsNaN(b) THEN NaN ELSE Sgn(b) * Rnd(a * SCALE, Abs(b))
\* a * num / den for a literal factor num/den such as 0.4 or 1.5
FScale(a, num, den) == IF IsNaN(a) THEN NaN ELSE Rnd(a * num, den)
\* f64 comparison: false when an operand is NaN
FLt(a, b) == ~IsNaN(a) /\ ~IsNaN(b) /\ a < b
FGt(a, b) == ~IsNaN(a) /\ ~IsNaN(b) /\ a > b
\* f64::max / f64::min return the other operand when one is NaN
FMax(a, b) == IF IsNaN(a) THEN b ELSE IF IsNaN(b) THEN a ELSE Max(a, b)
FMin(a, b) == IF IsNaN(a) THEN b ELSE IF IsNaN(b) THEN a ELSE Min(a, b)

RECURSIVE SqrtIter(_, _, _)
SqrtIter(n, lo, hi) ==
    IF lo >= hi THEN lo
    ELSE LET mid == (lo + hi + 1) \div 2
         IN  IF mid * mid <= n THEN SqrtIter(n, mid, hi)
             ELSE SqrtIter(n, lo, mid - 1)

\* floor of the square root of an integer n >= 0
ISqrt(n) == SqrtIter(n, 0, Min(n, 46340))

\* (dx * dx + dy * dy).sqrt() in fixed point
Hypot(dx, dy) ==
    IF IsNaN(dx) \/ IsNaN(dy) THEN NaN
    ELSE IF Abs(dx) <= 32767 /\ Abs(dy) <= 32767
         THEN ISqrt(dx * dx + dy * dy)
         ELSE 256 * ISqrt((Abs(dx) \div 256) * (Abs(dx) \div 256)
                          + (Abs(dy) \div 256) * (Abs(dy) \div 256))

----------------------------------------------------------------------------
(* rand_float: a 64-bit linear congruential generator over a thread-local   *)
(* seed.  The seed is kept as 8 bytes so that the wrapping u64 arithmetic   *)
(* is exact.                                                                *)

SeedInit == <<57, 48, 0, 0, 0, 0, 0, 0>>                 \* 12345
LcgMul == <<45, 127, 149, 76, 45, 244, 81, 88>>          \* 6364136223846793005

RECURSIVE MulColumn(_, _, _)
\* sum of s[i] * LcgMul[k + 1 - i] for i in 1..j: column k of the product
MulColumn(s, k, j) ==
    IF j = 0 THEN 0 ELSE s[j] * LcgMul[k + 1 - j] + MulColumn(s, k, j - 1)

RECURSIVE WrapBytes(_, _, _, _)
\* bytes k..8 of (s * LcgMul + 1) mod 2^64, carry is what column k inherits
WrapBytes(s, k, carry, acc) ==
    IF k > 8 THEN acc
    ELSE LET col == MulColumn(s, k, k) + carry
         IN  WrapBytes(s, k + 1, col \div 256, Append(acc, col % 256))

\* s.wrapping_mul(6364136223846793005).wrapping_add(1)
LcgNext(s) == WrapBytes(s, 1, 1, <<>>)

\* (*s as f64) / (u64::MAX as f64), as the top 16 bits of the new seed:
\* a fraction of 65536
rand_float(s) ==
    LET s2 == LcgNext(s)
    IN  [seed |-> s2, value |-> s2[8] * 256 + s2[7]]

\* (rand_float() - 0.5) * 50.0
Jitter(value) == Rnd(value * 50 * SCALE, 65536) - 25 * SCALE

----------------------------------------------------------------------------
(* ChartConfig (common.rs) *)

ConfigDefault ==
    [width |-> 800 * SCALE, height |-> 400 * SCALE,
     padding |-> [top |-> 40 * SCALE, right |-> 40 * SCALE,
                  bottom |-> 60 * SCALE, left |-> 60 * SCALE],
     show_grid |-> TRUE, show_labels |-> TRUE, show_legend |-> TRUE]

\* configurations handed to the constructors
Configs == {ConfigDefault}

\* a JsValue payload: one that serde_wasm_bindgen::from_value rejects, or
\* one that parses to the list items
Malformed == [ok |-> FALSE, items |-> <<>>]
Payload(items) == [ok |-> TRUE, items |-> items]

----------------------------------------------------------------------------
(* Network graph: data assignment *)

\* input nodes (NetworkNode): id, node_type, optional size.  label, color
\* and metadata are passed through untouched and are left out.
NodeUniverse ==
    << [id |-> "a1", node_type |-> "assessor",    size |-> NoValue],
       [id |-> "p1", node_type |-> "application", size |-> 30 * SCALE],
       [id |-> "a2", node_type |-> "assessor",    size |-> NoValue],
       [id |-> "p2", node_type |-> "application", size |-> NoValue] >>

NodePayloads == {SubSeq(NodeUniverse, 1, n) : n \in 0..MaxNodes}

\* input edges (NetworkEdge): source, target, optional weight
EdgeA1P1 == [source |-> "a1", target |-> "p1", weight |-> NoValue]
EdgeZzA1 == [source |-> "zz", target |-> "a1", weight |-> 2 * SCALE]
EdgeP1Zz == [source |-> "p1", target |-> "zz", weight |-> NoValue]

EdgePayloads == {<<EdgeZzA1, EdgeA1P1, EdgeP1Zz>>}

NetNew ==
    [nodes |-> <<>>, edges |-> <<>>,
     zoom |-> SCALE, pan_x |-> 0, pan_y |-> 0,
     dragging_node |-> None, hovered_node |-> None, selected_nodes |-> <<>>,
     simulation_running |-> TRUE,
     repulsion_strength |-> 500 * SCALE,
     attraction_strength |-> 5,
     damping |-> 90,
     center_gravity |-> 2]

\* cos and sin of (i / n) * 2 * PI in thousandths, for n <= 4
CosSin(i, n) ==
    IF i = 0 THEN <<1000, 0>>
    ELSE IF n = 2 THEN <<-1000, 0>>
    ELSE IF n = 3 THEN (IF i = 1 THEN <<-500, 866>> ELSE <<-500, -866>>)
    ELSE IF i = 1 THEN <<0, 1000>>
    ELSE IF i = 2 THEN <<-1000, 0>>
    ELSE <<0, -1000>>

CenterX(cfg) == Rnd(cfg.width, 2)
CenterY(cfg) == Rnd(cfg.height, 2)
\* (width.min(height) / 3.0).max(100.0)
RingRadius(cfg) == Max(Rnd(Min(cfg.width, cfg.height), 3), 100 * SCALE)
\* assessors in the inner ring, applications in the outer ring
RingOf(cfg, node_type) ==
    IF node_type = "assessor" THEN Rnd(RingRadius(cfg) * 4, 10)
    ELSE Rnd(RingRadius(cfg) * 9, 10)
DefaultSize(node_type) ==
    IF node_type = "assessor" THEN 20 * SCALE ELSE 12 * SCALE

\* the PhysicsNode built for input node i (0-based) of n, drawing x then y
PhysicsNode(cfg, node, i, n, jx, jy) ==
    LET cs == CosSin(i, n)
        r  == RingOf(cfg, node.node_type)
    IN  [id |-> node.id, node_type |-> node.node_type,
         x |-> CenterX(cfg) + Rnd(r * cs[1], 1000) + jx,
         y |-> CenterY(cfg) + Rnd(r * cs[2], 1000) + jy,
         vx |-> 0, vy |-> 0,
         size |-> IF node.size = NoValue THEN DefaultSize(node.node_type)
                  ELSE node.size,
         fixed |-> FALSE]

RECURSIVE Materialize(_, _, _, _, _)
\* nodes.iter().enumerate().map(..).collect(), threading the generator seed
Materialize(cfg, nodes_in, i, sd, acc) ==
    IF i >= Len(nodes_in) THEN [nodes |-> acc, seed |-> sd]
    ELSE LET rx == rand_float(sd)
             ry == rand_float(rx.seed)
         IN  Materialize(cfg, nodes_in, i + 1, ry.seed,
                 Append(acc, PhysicsNode(cfg, nodes_in[i + 1], i, Len(nodes_in),
                                         Jitter(rx.value), Jitter(ry.value))))

\* set_data that assigns self.nodes before it parses the edge payload
NetSetDataNodesFirst(c, cfg, sd, nodes_js, edges_js) ==
    IF ~nodes_js.ok THEN [net |-> c, seed |-> sd, val |-> "err"]
    ELSE LET m == Materialize(cfg, nodes_js.items, 0, sd, <<>>)
         IN  IF ~edges_js.ok
             THEN [net |-> [c EXCEPT !.nodes = m.nodes], seed |-> m.seed,
                   val |-> "err"]
             ELSE [net |-> [c EXCEPT !.nodes = m.nodes,
                                     !.edges = edges_js.items,
                                     !.simulation_running = TRUE],
                   seed |-> m.seed, val |-> "ok"]

\* set_data that leaves simulation_running as it was
NetSetDataNoRestart(c, cfg, sd, nodes_js, edges_js) ==
    IF ~nodes_js.ok THEN [net |-> c, seed |-> sd, val |-> "err"]
    ELSE IF ~edges_js.ok THEN [net |-> c, seed |-> sd, val |-> "err"]
    ELSE LET m == Materialize(cfg, nodes_js.items, 0, sd, <<>>)
         IN  [net |-> [c EXCEPT !.nodes = m.nodes,
                                !.edges = edges_js.items],
              seed |-> m.seed, val |-> "ok"]

\* NetworkGraphChart::set_data: both payloads are parsed before any field
\* is assigned
NetSetData(c, cfg, sd, nodes_js, edges_js) ==
    IF ~nodes_js.ok THEN [net |-> c, seed |-> sd, val |-> "err"]
    ELSE IF ~edges_js.ok THEN [net |-> c, seed |-> sd, val |-> "err"]
    ELSE LET m == Materialize(cfg, nodes_js.items, 0, sd, <<>>)
         IN  [net |-> [c EXCEPT !.nodes = m.nodes,
                                !.edges = edges_js.items,
                                !.simulation_running = TRUE],
              seed |-> m.seed, val |-> "ok"]

----------------------------------------------------------------------------
(* Network graph: one physics step *)

\* repulsion on the pair (ni, nj): the force added to nj and subtracted
\* from ni.  force = repulsion / dist_sq uses the unfloored dist_sq, so
\* coincident nodes give 0.0 * inf = NaN.
PairForce(ni, nj, rep) ==
    LET dx == FSub(nj.x, ni.x)
        dy == FSub(nj.y, ni.y)
    IN  IF IsNaN(dx) \/ IsNaN(dy) THEN <<NaN, NaN>>
        ELSE IF dx = 0 /\ dy = 0 THEN <<NaN, NaN>>
        ELSE IF Abs(dx) > 32767 \/ Abs(dy) > 32767
        THEN LET dist  == Hypot(dx, dy)
                 force == Rnd(Rnd(rep * SCALE, dist) * SCALE, dist)
             IN  <<Rnd(dx * force, dist), Rnd(dy * force, dist)>>
        ELSE LET dist_sq == dx * dx + dy * dy
                 dist    == Max(ISqrt(dist_sq), SCALE)
                 force   == Rnd(rep * SCALE * SCALE, dist_sq)
             IN  <<Rnd(dx * force, dist), Rnd(dy * force, dist)>>

AddForce(forces, k, fx, fy) ==
    [forces EXCEPT ![k + 1] = <<FAdd(@[1], fx), FAdd(@[2], fy)>>]
SubForce(forces, k, fx, fy) ==
    [forces EXCEPT ![k + 1] = <<FSub(@[1], fx), FSub(@[2], fy)>>]

RECURSIVE RepulsionLoop(_, _, _, _, _)
\* for i in 0..n { for j in (i + 1)..n { .. } }
RepulsionLoop(ns, rep, i, j, forces) ==
    IF i >= Len(ns) THEN forces
    ELSE IF j >= Len(ns) THEN RepulsionLoop(ns, rep, i + 1, i + 2, forces)
    ELSE LET f == PairForce(ns[i + 1], ns[j + 1], rep)
         IN  RepulsionLoop(ns, rep, i, j + 1,
                 AddForce(SubForce(forces, i, f[1], f[2]), j, f[1], f[2]))

RECURSIVE PositionFrom(_, _, _)
PositionFrom(ns, id, k) ==
    IF k >= Len(ns) THEN None
    ELSE IF ns[k + 1].id = id THEN k
    ELSE PositionFrom(ns, id, k + 1)

\* a lookup that falls back to the first node when the id is absent
PositionOrFirst(ns, id) ==
    IF PositionFrom(ns, id, 0) = None THEN 0 ELSE PositionFrom(ns, id, 0)

\* self.nodes.iter().position(|n| n.id == id)
Position(ns, id) == PositionFrom(ns, id, 0)

\* the spring force of one edge whose endpoints are nodes s and t
EdgeForce(ns, attr, edge, s, t) ==
    LET dx     == FSub(ns[t + 1].x, ns[s + 1].x)
        dy     == FSub(ns[t + 1].y, ns[s + 1].y)
        dist   == FMax(Hypot(dx, dy), SCALE)
        weight == IF edge.weight = NoValue THEN SCALE ELSE edge.weight
        force  == FMul(FMul(attr, dist), weight)
    IN  IF IsNaN(dx) \/ IsNaN(dy) \/ IsNaN(force) THEN <<NaN, NaN>>
        ELSE <<Rnd(dx * force, dist), Rnd(dy * force, dist)>>

RECURSIVE AttractionLoop(_, _, _, _, _)
\* for edge in &self.edges: edges with an unresolved endpoint are skipped
AttractionLoop(ns, attr, edges, e, forces) ==
    IF e > Len(edges) THEN forces
    ELSE LET s == Position(ns, edges[e].source)
             t == Position(ns, edges[e].target)
         IN  IF s # None /\ t # None
             THEN LET f == EdgeForce(ns, attr, edges[e], s, t)
                  IN  AttractionLoop(ns, attr, edges, e + 1,
                          SubForce(AddForce(forces, s, f[1], f[2]), t, f[1], f[2]))
             ELSE AttractionLoop(ns, attr, edges, e + 1, forces)

\* forces[i] += (center - node) * center_gravity
GravityLoop(cfg, ns, cg, forces) ==
    [i \in 1..Len(ns) |->
        <<FAdd(forces[i][1], FMul(FSub(CenterX(cfg), ns[i].x), cg)),
          FAdd(forces[i][2], FMul(FSub(CenterY(cfg), ns[i].y), cg))>>]

\* an integration loop without the exclusion test
PinnedNever(c, i) == FALSE

\* is node i (0-based) excluded from integration
Pinned(c, i) == c.nodes[i + 1].fixed \/ c.dragging_node = i

\* the integration of one free node: [node, speed]
Integrate(node, f, damping) ==
    LET vx1   == FMul(FAdd(node.vx, f[1]), damping)
        vy1   == FMul(FAdd(node.vy, f[2]), damping)
        speed == Hypot(vx1, vy1)
        vx2   == IF FGt(speed, 10 * SCALE)
                 THEN FMul(FDiv(vx1, speed), 10 * SCALE) ELSE vx1
        vy2   == IF FGt(speed, 10 * SCALE)
                 THEN FMul(FDiv(vy1, speed), 10 * SCALE) ELSE vy1
    IN  [node |-> [node EXCEPT !.vx = vx2, !.vy = vy2,
                               !.x = FAdd(node.x, vx2),
                               !.y = FAdd(node.y, vy2)],
         speed |-> speed]

RECURSIVE SumSpeed(_, _, _)
SumSpeed(c, moved, i) ==
    IF i >= Len(c.nodes) THEN 0
    ELSE FAdd(IF Pinned(c, i) THEN 0 ELSE moved[i + 1].speed,
              SumSpeed(c, moved, i + 1))

\* step_simulation past its early return: forces, integration, settle test
NetAdvance(c, cfg) ==
    LET ns     == c.nodes
        zero   == [i \in 1..Len(ns) |-> <<0, 0>>]
        f1     == RepulsionLoop(ns, c.repulsion_strength, 0, 1, zero)
        f2     == AttractionLoop(ns, c.attraction_strength, c.edges, 1, f1)
        forces == GravityLoop(cfg, ns, c.center_gravity, f2)
        moved  == [i \in 1..Len(ns) |-> Integrate(ns[i], forces[i], c.damping)]
        total_movement == SumSpeed(c, moved, 0)
    IN  [net |-> [c EXCEPT
                    !.nodes = [i \in 1..Len(ns) |->
                                 IF Pinned(c, i - 1) THEN ns[i]
                                 ELSE moved[i].node],
                    !.simulation_running =
                        IF FLt(total_movement, 50) THEN FALSE ELSE @],
         val |-> TRUE, stepped |-> TRUE]

\* a step that returns early on an empty node list only
NetStepWhileStopped(c, cfg) ==
    IF Len(c.nodes) = 0
    THEN [net |-> c, val |-> FALSE, stepped |-> FALSE]
    ELSE NetAdvance(c, cfg)

\* NetworkGraphChart::step_simulation: [net, val, stepped]
NetStep(c, cfg) ==
    IF ~c.simulation_running \/ Len(c.nodes) = 0
    THEN [net |-> c, val |-> FALSE, stepped |-> FALSE]
    ELSE NetAdvance(c, cfg)

----------------------------------------------------------------------------
(* Network graph: auxiliary operations and pointer handlers *)

\* a set_physics that also restarts the simulation
NetSetPhysicsRestart(c, repulsion, attraction, damping) ==
    [c EXCEPT !.repulsion_strength = repulsion,
              !.attraction_strength = attraction,
              !.damping = damping,
              !.simulation_running = TRUE]

\* NetworkGraphChart::set_physics
NetSetPhysics(c, repulsion, attraction, damping) ==
    [c EXCEPT !.repulsion_strength = repulsion,
              !.attraction_strength = attraction,
              !.damping = damping]

\* NetworkGraphChart::toggle_simulation
NetToggle(c) == [c EXCEPT !.simulation_running = ~@]

\* HitTestResult::miss and HitTestResult::hit (common.rs).  element_id is an
\* Option<String>: <<>> for None, <<id>> for Some(id); data is None (NoData)
\* or the payload.
NoData == [null |-> TRUE]
Miss == [hit |-> FALSE, element_id |-> <<>>, element_type |-> "none",
         data |-> NoData]

\* a hit that drops its payload
HitNoPayload(id, element_type, data) ==
    [hit |-> TRUE, element_id |-> <<id>>, element_type |-> element_type,
     data |-> NoData]

Hit(id, element_type, data) ==
    [hit |-> TRUE, element_id |-> <<id>>, element_type |-> element_type,
     data |-> data]

\* pointer coordinates in simulation space
ToSim(c, x, y) == <<FDiv(FSub(x, c.pan_x), c.zoom), FDiv(FSub(y, c.pan_y), c.zoom)>>

\* dist < node.size * 1.5 for the pointer (tx, ty)
Within(node, tx, ty) ==
    FLt(Hypot(FSub(tx, node.x), FSub(ty, node.y)), FScale(node.size, 15, 10))

RECURSIVE LastWithin(_, _, _, _)
\* a scan that keeps the last node in reach instead of returning at the first
LastWithin(ns, tx, ty, i) ==
    IF i >= Len(ns) THEN None
    ELSE LET later == LastWithin(ns, tx, ty, i + 1)
         IN  IF later # None THEN later
             ELSE IF Within(ns[i + 1], tx, ty) THEN i ELSE None

RECURSIVE FirstWithin(_, _, _, _)
\* for (i, node) in self.nodes.iter().enumerate(): the first node in reach
FirstWithin(ns, tx, ty, i) ==
    IF i >= Len(ns) THEN None
    ELSE IF Within(ns[i + 1], tx, ty) THEN i
    ELSE FirstWithin(ns, tx, ty, i + 1)

\* NetworkGraphChart::on_mouse_down: [net, val, panic]
NetMouseDown(c, x, y) ==
    LET t == ToSim(c, x, y)
        i == FirstWithin(c.nodes, t[1], t[2], 0)
    IN  IF i # None
        THEN [net |-> [c EXCEPT !.dragging_node = i,
                                !.nodes[i + 1].fixed = TRUE],
              val |-> TRUE, panic |-> FALSE]
        ELSE [net |-> c, val |-> FALSE, panic |-> FALSE]

\* NetworkGraphChart::on_mouse_up: self.nodes[idx] panics when idx is no
\* longer an index of the node list
NetMouseUp(c) ==
    IF c.dragging_node # None /\ c.dragging_node >= Len(c.nodes)
    THEN [net |-> c, val |-> "panic", panic |-> TRUE]
    ELSE [net |-> [c EXCEPT
                     !.nodes = [i \in 1..Len(c.nodes) |->
                                  IF i - 1 = c.dragging_node
                                  THEN [c.nodes[i] EXCEPT !.fixed = FALSE]
                                  ELSE c.nodes[i]],
                     !.dragging_node = None],
          val |-> "unit", panic |-> FALSE]

\* the number of edges that name the node
Connections(c, id) ==
    Cardinality({e \in 1..Len(c.edges) :
                    c.edges[e].source = id \/ c.edges[e].target = id})

\* NetworkGraphChart::on_mouse_move: [net, val, panic]
NetMouseMove(c, x, y) ==
    LET t == ToSim(c, x, y)
        i == FirstWithin(c.nodes, t[1], t[2], 0)
    IN  IF c.dragging_node # None
        THEN IF c.dragging_node >= Len(c.nodes)
             THEN [net |-> c, val |-> "panic", panic |-> TRUE]
             ELSE [net |-> [c EXCEPT !.nodes[c.dragging_node + 1].x = t[1],
                                     !.nodes[c.dragging_node + 1].y = t[2]],
                   val |-> Miss, panic |-> FALSE]
        ELSE IF i # None
        THEN [net |-> [c EXCEPT !.hovered_node = i],
              val |-> Hit(c.nodes[i + 1].id, c.nodes[i + 1].node_type,
                          [id |-> c.nodes[i + 1].id,
                           type |-> c.nodes[i + 1].node_type,
                           connections |-> Connections(c, c.nodes[i + 1].id)]),
              panic |-> FALSE]
        ELSE [net |-> [c EXCEPT !.hovered_node = None],
              val |-> Miss, panic |-> FALSE]

\* a multi-select click that pushes without looking for the index
ToggledPushOnly(selected, i) == Append(selected, i)

\* self.selected_nodes after a click on node i
Toggled(selected, i) ==
    IF \E k \in 1..Len(selected) : selected[k] = i
    THEN SelectSeq(selected, LAMBDA idx : idx # i)
    ELSE Append(selected, i)

\* NetworkGraphChart::on_click: [net, val, panic].  The summary indexes
\* self.nodes with every selected index.
NetClick(c, x, y, multi_select) ==
    LET t   == ToSim(c, x, y)
        i   == FirstWithin(c.nodes, t[1], t[2], 0)
        sel == IF multi_select THEN Toggled(c.selected_nodes, i) ELSE <<i>>
    IN  IF i # None
        THEN IF \E k \in 1..Len(sel) : sel[k] >= Len(c.nodes)
             THEN [net |-> [c EXCEPT !.selected_nodes = sel],
                   val |-> "panic", panic |-> TRUE]
             ELSE [net |-> [c EXCEPT !.selected_nodes = sel],
                   val |-> [selected |->
                              [k \in 1..Len(sel) |-> c.nodes[sel[k] + 1].id]],
                   panic |-> FALSE]
        ELSE [net |-> IF multi_select THEN c
                      ELSE [c EXCEPT !.selected_nodes = <<>>],
              val |-> [selected |-> <<>>], panic |-> FALSE]

----------------------------------------------------------------------------
(* Network graph: viewport *)

\* f64::clamp: NaN stays NaN
FClamp(a, lo, hi) == IF IsNaN(a) THEN NaN ELSE Max(lo, Min(a, hi))

\* the requested zoom taken without clamping
ZoomTargetUnclamped(zoom, delta) ==
    FMul(zoom, FSub(SCALE, FScale(delta, 1, 1000)))

\* self.zoom * (1.0 - delta * 0.001), clamped to the zoom bounds
ZoomTarget(zoom, delta) ==
    FClamp(FMul(zoom, FSub(SCALE, FScale(delta, 1, 1000))), 30, 300)

\* center - (center - pan) * zoom_change, where zoom_change is the ratio
\* new zoom / old zoom, kept as the pair <<new, old>> so that the product
\* is rounded once
PanToward(pan, center, zoom_change) ==
    IF IsNaN(pan) \/ IsNaN(center) \/ IsNaN(zoom_change[1]) \/ IsNaN(zoom_change[2])
    THEN NaN
    ELSE center - Rnd((center - pan) * zoom_change[1], zoom_change[2])

\* on_zoom that moves the pan by the requested factor, not by the clamped one
NetZoomRequested(c, delta, center_x, center_y) ==
    LET zoom        == ZoomTarget(c.zoom, delta)
        zoom_change == <<ZoomTargetUnclamped(c.zoom, delta), c.zoom>>
    IN  [c EXCEPT !.zoom = zoom,
                  !.pan_x = PanToward(c.pan_x, center_x, zoom_change),
                  !.pan_y = PanToward(c.pan_y, center_y, zoom_change)]

\* NetworkGraphChart::on_zoom
NetZoom(c, delta, center_x, center_y) ==
    LET zoom        == ZoomTarget(c.zoom, delta)
        zoom_change == <<zoom, c.zoom>>
    IN  [c EXCEPT !.zoom = zoom,
                  !.pan_x = PanToward(c.pan_x, center_x, zoom_change),
                  !.pan_y = PanToward(c.pan_y, center_y, zoom_change)]

\* NetworkGraphChart::on_pan
NetPan(c, dx, dy) ==
    [c EXCEPT !.pan_x = FAdd(c.pan_x, dx), !.pan_y = FAdd(c.pan_y, dy)]

\* NetworkGraphChart::reset_view
NetResetView(c) ==
    [c EXCEPT !.zoom = SCALE, !.pan_x = 0, !.pan_y = 0, !.selected_nodes = <<>>]

RECURSIVE FoldMin(_, _)
\* fold(f64::INFINITY, f64::min) over values of which one is a number
FoldMin(vals, k) ==
    IF k > Len(vals) THEN NaN ELSE FMin(vals[k], FoldMin(vals, k + 1))

RECURSIVE FoldMax(_, _)
\* fold(f64::NEG_INFINITY, f64::max) over values of which one is a number
FoldMax(vals, k) ==
    IF k > Len(vals) THEN NaN ELSE FMax(vals[k], FoldMax(vals, k + 1))

\* zoom and pan of one axis pair in fit_to_content.  When every coordinate
\* of an axis is NaN the folds keep their infinite seeds: the extent is
\* -inf, the ratio -0, the zoom the lower clamp and the pan inf - inf = NaN.
FitZoom(cfg, xs, ys) ==
    LET content_width  == FAdd(FSub(FoldMax(xs, 1), FoldMin(xs, 1)), 100 * SCALE)
        content_height == FAdd(FSub(FoldMax(ys, 1), FoldMin(ys, 1)), 100 * SCALE)
        rx == IF IsNaN(content_width) THEN 0 ELSE FDiv(cfg.width, content_width)
        ry == IF IsNaN(content_height) THEN 0 ELSE FDiv(cfg.height, content_height)
    IN  FClamp(FScale(FMin(rx, ry), 9, 10), 30, 200)

FitPan(extent, content_min, content_max, zoom) ==
    LET content == FAdd(FSub(content_max, content_min), 100 * SCALE)
    IN  FAdd(FSub(FScale(FSub(extent, FMul(content, zoom)), 1, 2),
                  FMul(content_min, zoom)),
             50 * SCALE)

\* NetworkGraphChart::fit_to_content
NetFitToContent(c, cfg) ==
    IF Len(c.nodes) = 0 THEN c
    ELSE LET xs   == [k \in 1..Len(c.nodes) |-> c.nodes[k].x]
             ys   == [k \in 1..Len(c.nodes) |-> c.nodes[k].y]
             zoom == FitZoom(cfg, xs, ys)
         IN  [c EXCEPT
                !.zoom  = zoom,
                !.pan_x = FitPan(cfg.width, FoldMin(xs, 1), FoldMax(xs, 1), zoom),
                !.pan_y = FitPan(cfg.height, FoldMin(ys, 1), FoldMax(ys, 1), zoom)]

----------------------------------------------------------------------------
(* Histogram (score_distribution.rs): data assignment *)

ScoreRec(id, score, max_score, variance) ==
    [application_id |-> id, score |-> score, max_score |-> max_score,
     variance |-> variance]

ScoreExample ==
    << ScoreRec("s1", 10 * SCALE, 100 * SCALE, NoValue),
       ScoreRec("s2", 30 * SCALE, 100 * SCALE, 4 * SCALE),
       ScoreRec("s3", 55 * SCALE, 100 * SCALE, NoValue),
       ScoreRec("s4", 95 * SCALE, 100 * SCALE, 2 * SCALE) >>
ScoreEdge ==
    << ScoreRec("s5", 5 * SCALE, 0, 6 * SCALE),
       ScoreRec("s6", 20 * SCALE, 20 * SCALE, NoValue) >>

\* a score above max_score and a negative score
ScoreOutside ==
    << ScoreRec("s7", 120 * SCALE, 100 * SCALE, NoValue),
       ScoreRec("s8", -5 * SCALE, 100 * SCALE, NoValue),
       ScoreRec("s9", 50 * SCALE, 100 * SCALE, NoValue) >>

ScorePayloads == {<<>>, ScoreExample, ScoreEdge, ScoreOutside}
BinCounts == {0, 1, 4, 5}

HistNew ==
    [bins |-> <<>>, total_count |-> 0, max_count |-> 0,
     score_range |-> <<0, 100 * SCALE>>, hovered_bin |-> None]

\* if d.max_score > 0.0 { (d.score / d.max_score) * 100.0 } else { 0.0 }
Pct(d) == IF d.max_score > 0 THEN Rnd(d.score * 100 * SCALE, d.max_score) ELSE 0

\* the bin index without the cap at the last bin
BinIdxNoCap(pct, bin_count) ==
    Max(0, pct \div Rnd(100 * SCALE, bin_count))

\* ((pct / bin_width).floor() as usize).min(bin_count as usize - 1), k >= 1
BinIdx(pct, bin_count) ==
    Min(Max(0, pct \div Rnd(100 * SCALE, bin_count)), bin_count - 1)

RECURSIVE SumVariance(_, _, _, _)
SumVariance(data, bin_count, b, k) ==
    IF k > Len(data) THEN 0
    ELSE (IF BinIdx(Pct(data[k]), bin_count) = b /\ data[k].variance # NoValue
          THEN data[k].variance ELSE 0)
         + SumVariance(data, bin_count, b, k + 1)

\* bin b (0-based) after the distribution and averaging loops
HistogramBin(data, bin_count, b) ==
    LET members == SelectSeq(data, LAMBDA d : BinIdx(Pct(d), bin_count) = b)
        width   == Rnd(100 * SCALE, bin_count)
    IN  [min |-> b * width, max |-> (b + 1) * width,
         count |-> Len(members),
         applications |-> [k \in 1..Len(members) |-> members[k].application_id],
         avg_variance |-> IF Len(members) > 0
                          THEN Rnd(SumVariance(data, bin_count, b, 1), Len(members))
                          ELSE 0]

RECURSIVE MaxOf(_, _)
\* iter().max() of a sequence of naturals, 0 when empty
MaxOf(seq, k) ==
    IF k > Len(seq) THEN 0 ELSE Max(seq[k], MaxOf(seq, k + 1))

\* set_data that returns on an empty list before it clears anything
HistSetDataKeepOnEmpty(c, data_js, bin_count) ==
    IF ~data_js.ok THEN [chart |-> c, val |-> "err", panic |-> FALSE]
    ELSE IF Len(data_js.items) = 0
    THEN [chart |-> c, val |-> "ok", panic |-> FALSE]
    ELSE IF bin_count = 0
    THEN [chart |-> [c EXCEPT !.score_range = <<0, 100 * SCALE>>, !.bins = <<>>],
          val |-> "panic", panic |-> TRUE]
    ELSE LET bins == [b \in 1..bin_count |->
                         HistogramBin(data_js.items, bin_count, b - 1)]
         IN  [chart |-> [c EXCEPT
                           !.score_range = <<0, 100 * SCALE>>,
                           !.bins = bins,
                           !.total_count = Len(data_js.items),
                           !.max_count = MaxOf([b \in 1..bin_count |-> bins[b].count], 1)],
              val |-> "ok", panic |-> FALSE]

\* ScoreDistributionChart::set_data: [chart, val, panic]
HistSetData(c, data_js, bin_count) ==
    IF ~data_js.ok THEN [chart |-> c, val |-> "err", panic |-> FALSE]
    ELSE IF Len(data_js.items) = 0
    THEN [chart |-> [c EXCEPT !.bins = <<>>, !.total_count = 0, !.max_count = 0],
          val |-> "ok", panic |-> FALSE]
    ELSE IF bin_count = 0
    THEN \* no bin to index: bin_count as usize - 1 / self.bins[bin_idx]
         [chart |-> [c EXCEPT !.score_range = <<0, 100 * SCALE>>, !.bins = <<>>],
          val |-> "panic", panic |-> TRUE]
    ELSE LET bins == [b \in 1..bin_count |->
                         HistogramBin(data_js.items, bin_count, b - 1)]
         IN  [chart |-> [c EXCEPT
                           !.score_range = <<0, 100 * SCALE>>,
                           !.bins = bins,
                           !.total_count = Len(data_js.items),
                           !.max_count = MaxOf([b \in 1..bin_count |-> bins[b].count], 1)],
              val |-> "ok", panic |-> FALSE]

\* ScoreDistributionChart::on_mouse_move: [chart, val]
HistMouseMove(c, cfg, x, y) ==
    LET plot_width == cfg.width - cfg.padding.left - cfg.padding.right
        in_plot    == /\ ~IsNaN(x) /\ ~IsNaN(y)
                      /\ x >= cfg.padding.left
                      /\ x <= cfg.width - cfg.padding.right
                      /\ y >= cfg.padding.top
                      /\ y <= cfg.height - cfg.padding.bottom
        \* inside a plot of width 0 relative_x is 0, 0.0 / 0.0 is NaN and
        \* `NaN as usize` is 0
        bin_idx    == IF plot_width = 0 THEN 0
                      ELSE ((x - cfg.padding.left) * Len(c.bins)) \div plot_width
    IN  IF in_plot /\ bin_idx < Len(c.bins)
        THEN LET bin == c.bins[bin_idx + 1]
             IN  [chart |-> [c EXCEPT !.hovered_bin = bin_idx],
                  val |-> Hit("bin-" \o ToString(bin_idx), "histogram_bin",
                              [binIndex |-> bin_idx, min |-> bin.min,
                               max |-> bin.max, count |-> bin.count,
                               avgVariance |-> bin.avg_variance,
                               applications |->
                                   SubSeq(bin.applications, 1,
                                          Min(Len(bin.applications), 10))])]
        ELSE [chart |-> [c EXCEPT !.hovered_bin = None], val |-> Miss]

----------------------------------------------------------------------------
(* Progress tracker (progress_tracker.rs): data assignment *)

Segment(id, completed, total) == [id |-> id, completed |-> completed, total |-> total]

SegmentPayloads ==
    {<<>>,
     <<Segment("g1", 1, 3), Segment("g2", 1, 1)>>,
     <<Segment("g3", 0, 0)>>,
     <<Segment("g4", 0, 0), Segment("g5", 2, 4)>>,
     <<Segment("g6", 1, 2), Segment("g7", 0, 0), Segment("g8", 2, 2)>>,
     <<Segment("g9", 3, 2), Segment("g10", 1, 0)>>}

ProgNew ==
    [segments |-> <<>>, center_label |-> "Progress", center_value |-> [text |-> "0%"],
     hovered_segment |-> None, animation_progress |-> SCALE]

RECURSIVE SumField(_, _, _)
SumField(seq, F(_), k) ==
    IF k > Len(seq) THEN 0 ELSE F(seq[k]) + SumField(seq, F, k + 1)

\* format!("{:.1}%", pct) as tenths of a percent, or "N/A"
CenterValue(segments) ==
    LET total_completed == SumField(segments, LAMBDA g : g.completed, 1)
        total_items     == SumField(segments, LAMBDA g : g.total, 1)
    IN  IF total_items > 0
        THEN [tenths |-> Rnd(total_completed * 1000, total_items)]
        ELSE [text |-> "N/A"]

\* ProgressTrackerChart::set_data: [chart, val]
ProgSetData(c, data_js) ==
    IF ~data_js.ok THEN [chart |-> c, val |-> "err"]
    ELSE [chart |-> [c EXCEPT !.segments = data_js.items,
                              !.center_value = CenterValue(data_js.items),
                              !.animation_progress = 0],
          val |-> "ok"]

----------------------------------------------------------------------------
(* Progress tracker: donut layout, entry animation and hover.  Angles are in
   hundredths of a degree. *)

\* 2.0 * PI
TURN == 360 * SCALE

\* (self.config.width.min(self.config.height) / 2.0 - 60.0).max(50.0)
OuterRadius(cfg) ==
    FMax(FSub(FScale(FMin(cfg.width, cfg.height), 1, 2), 60 * SCALE), 50 * SCALE)

\* outer_radius * 0.6
InnerRadius(cfg) == FScale(OuterRadius(cfg), 6, 10)

\* self.segments.iter().map(|s| s.total as f64).sum()
TotalItems(segments) == SumField(segments, LAMBDA g : g.total, 1)

\* a span that gives every segment the same share of the turn
SegmentAngleEqual(segments, i, factor) ==
    Rnd(TURN * factor, Len(segments) * SCALE)

\* (segment.total as f64 / total) * 2.0 * PI * factor for segment index i;
\* factor is self.animation_progress in draw_donut and 1.0 in on_mouse_move
SegmentAngle(segments, i, factor) ==
    Rnd(segments[i + 1].total * TURN * factor, TotalItems(segments) * SCALE)

\* segment_angle * completed_ratio, the angle of the completed arc of
\* segment index i, with completed_ratio = completed / total.max(1)
CompletedAngle(segments, i, factor) ==
    Rnd(SegmentAngle(segments, i, factor) * segments[i + 1].completed,
        Max(segments[i + 1].total, 1))

RECURSIVE DonutArcs(_, _, _, _)
\* the loop of draw_donut: the background arc of each segment, from
\* current_angle to current_angle + segment_angle
DonutArcs(segments, factor, i, current_angle) ==
    IF i >= Len(segments) THEN <<>>
    ELSE LET segment_angle == SegmentAngle(segments, i, factor)
         IN  <<[from |-> current_angle, to |-> current_angle + segment_angle]>>
             \o DonutArcs(segments, factor, i + 1, current_angle + segment_angle)

\* draw_donut: nothing for a zero total, else the arcs starting at -PI / 2
DrawDonut(c) ==
    IF TotalItems(c.segments) = 0 THEN <<>>
    ELSE DonutArcs(c.segments, c.animation_progress, 0, -(TURN \div 4))

\* ProgressTrackerChart::animate: [chart, val]
ProgAnimate(c, delta_ms) ==
    IF ~IsNaN(c.animation_progress) /\ c.animation_progress >= SCALE
    THEN [chart |-> c, val |-> FALSE]
    ELSE LET p == FMin(FAdd(c.animation_progress, FDiv(delta_ms, 500 * SCALE)), SCALE)
         IN  [chart |-> [c EXCEPT !.animation_progress = p], val |-> FLt(p, SCALE)]

\* ProgressTrackerChart::set_center_label
ProgSetCenterLabel(c, label) == [c EXCEPT !.center_label = label]

\* atan(t) for 0 <= t <= 1: exact at 0 and 1, within 0.3 degrees between
AtanUnit(t) == Rnd(t * (45 * SCALE * SCALE + 1566 * (SCALE - t)), SCALE * SCALE)

\* dy.atan2(dx), in (-180, 180] degrees; exact on the axes and the diagonals
Atan2(dy, dx) ==
    LET ax == Abs(dx)
        ay == Abs(dy)
        acute == IF ax = 0 /\ ay = 0 THEN 0
                 ELSE IF ay <= ax THEN AtanUnit(Rnd(ay * SCALE, ax))
                 ELSE 90 * SCALE - AtanUnit(Rnd(ax * SCALE, ay))
    IN  IF dx >= 0 THEN (IF dy >= 0 THEN acute ELSE -acute)
        ELSE IF dy >= 0 THEN 180 * SCALE - acute
        ELSE acute - 180 * SCALE

\* dy.atan2(dx) + PI / 2.0, plus 2.0 * PI when negative
PointerAngle(dx, dy) ==
    LET angle == Atan2(dy, dx) + TURN \div 4
    IN  IF angle < 0 THEN angle + TURN ELSE angle

\* distance >= inner_radius && distance <= outer_radius
InBand(cfg, x, y) ==
    LET distance == Hypot(FSub(x, FScale(cfg.width, 1, 2)),
                          FSub(y, FScale(cfg.height, 1, 2)))
    IN  /\ ~IsNaN(distance)
        /\ distance >= InnerRadius(cfg)
        /\ distance <= OuterRadius(cfg)

RECURSIVE HoverScan(_, _, _, _)
\* the loop of on_mouse_move: the first segment with
\* angle <= cumulative_angle + segment_angle
HoverScan(segments, angle, i, cumulative_angle) ==
    IF i >= Len(segments) THEN None
    ELSE LET segment_angle == SegmentAngle(segments, i, SCALE)
         IN  IF angle <= cumulative_angle + segment_angle THEN i
             ELSE HoverScan(segments, angle, i + 1, cumulative_angle + segment_angle)

\* ProgressTrackerChart::on_mouse_move: [chart, val]
ProgMouseMove(c, cfg, x, y) ==
    LET angle == PointerAngle(FSub(x, FScale(cfg.width, 1, 2)),
                              FSub(y, FScale(cfg.height, 1, 2)))
        i == IF InBand(cfg, x, y) /\ TotalItems(c.segments) > 0
             THEN HoverScan(c.segments, angle, 0, 0)
             ELSE None
    IN  IF i # None
        THEN [chart |-> [c EXCEPT !.hovered_segment = i],
              val |-> Hit(c.segments[i + 1].id, "progress_segment",
                          [id |-> c.segments[i + 1].id,
                           completed |-> c.segments[i + 1].completed,
                           total |-> c.segments[i + 1].total,
                           percentage |->
                               Rnd(c.segments[i + 1].completed * 100 * SCALE,
                                   Max(c.segments[i + 1].total, 1))])]
        ELSE [chart |-> [c EXCEPT !.hovered_segment = None], val |-> Miss]

----------------------------------------------------------------------------
(* Variance heatmap (variance_heatmap.rs): data assignment and cell layout *)

VarianceRow(id, scores, variance, flagged) ==
    [application_id |-> id, scores |-> scores, variance |-> variance,
     flagged |-> flagged]

VariancePayloads ==
    {<<>>,
     <<VarianceRow("v1", <<60 * SCALE, 80 * SCALE>>, 12 * SCALE, TRUE)>>,
     <<VarianceRow("v2", <<50 * SCALE>>, 0, FALSE),
       VarianceRow("v3", <<40 * SCALE, 70 * SCALE, 90 * SCALE>>, 8 * SCALE, FALSE)>>,
     <<VarianceRow("v4", <<>>, 0, FALSE)>>}

HeatNew ==
    [data |-> <<>>, max_assessors |-> 0, variance_threshold |-> 10 * SCALE,
     cell_positions |-> <<>>, hovered_cell |-> <<>>, scroll_offset |-> 0,
     visible_rows |-> 20]

RECURSIVE CellRows(_, _, _, _, _, _, _)
\* for row in start_row..end_row { for col in 0..col_count { push } }
CellRows(cfg, row, end_row, start_row, col_count, cell_width, cell_height) ==
    IF row >= end_row THEN <<>>
    ELSE [col \in 1..col_count |->
            [row |-> row, col |-> col - 1,
             x |-> cfg.padding.left + 100 * SCALE + (col - 1) * cell_width,
             y |-> cfg.padding.top + (row - start_row) * cell_height,
             width |-> cell_width, height |-> cell_height]]
         \o CellRows(cfg, row + 1, end_row, start_row, col_count,
                     cell_width, cell_height)

\* a layout that always starts at the first row
ComputeCellPositionsFromTop(c, cfg) ==
    LET plot_width  == cfg.width - cfg.padding.left - cfg.padding.right
        plot_height == cfg.height - cfg.padding.top - cfg.padding.bottom
        row_count   == Min(c.visible_rows, Len(c.data))
        col_count   == Max(c.max_assessors, 1)
    IN  IF row_count = 0 THEN <<>>
        ELSE CellRows(cfg, 0, Min(row_count + 1, Len(c.data)), 0, col_count,
                      Rnd(plot_width - 100 * SCALE, col_count),
                      Rnd(plot_height, row_count))

\* VarianceHeatmapChart::compute_cell_positions.  With no data row_count is
\* 0, cell_height is not finite, and start_row = end_row = 0: no cell.
ComputeCellPositions(c, cfg) ==
    LET plot_width  == cfg.width - cfg.padding.left - cfg.padding.right
        plot_height == cfg.height - cfg.padding.top - cfg.padding.bottom
        row_count   == Min(c.visible_rows, Len(c.data))
        col_count   == Max(c.max_assessors, 1)
    IN  IF row_count = 0 THEN <<>>
        ELSE LET cell_width  == Rnd(plot_width - 100 * SCALE, col_count)
                 cell_height == Rnd(plot_height, row_count)
                 start_row   == IF cell_height = 0 THEN 0
                                ELSE Max(0, FDiv(c.scroll_offset, cell_height) \div SCALE)
                 end_row     == Min(start_row + row_count + 1, Len(c.data))
             IN  CellRows(cfg, start_row, end_row, start_row, col_count,
                          cell_width, cell_height)

\* VarianceHeatmapChart::set_data: [chart, val]
HeatSetData(c, cfg, data_js) ==
    IF ~data_js.ok THEN [chart |-> c, val |-> "err"]
    ELSE LET rows == data_js.items
             c1 == [c EXCEPT
                      !.max_assessors =
                          MaxOf([k \in 1..Len(rows) |-> Len(rows[k].scores)], 1),
                      !.data = rows,
                      !.scroll_offset = 0]
         IN  [chart |-> [c1 EXCEPT !.cell_positions = ComputeCellPositions(c1, cfg)],
              val |-> "ok"]

\* VarianceHeatmapChart::set_variance_threshold
HeatSetVarianceThreshold(c, threshold) == [c EXCEPT !.variance_threshold = threshold]

\* VarianceHeatmapChart::get_flagged: the rows whose variance exceeds the
\* threshold, by application id
HeatGetFlagged(c) ==
    LET flagged == SelectSeq(c.data, LAMBDA d : FGt(d.variance, c.variance_threshold))
    IN  [k \in 1..Len(flagged) |-> flagged[k].application_id]

\* VarianceHeatmapChart::get_stats: the counts of the summary
HeatGetStats(c) ==
    [totalApplications |-> Len(c.data),
     flaggedCount |-> Len(SelectSeq(c.data, LAMBDA d : d.flagged)),
     varianceThreshold |-> c.variance_threshold,
     maxAssessors |-> c.max_assessors]

\* a clamp that only keeps the offset from going below zero
ClampScrollFloorOnly(offset, max_scroll) == FMax(offset, 0)

\* offset.max(0.0).min(max_scroll.max(0.0))
ClampScroll(offset, max_scroll) == FMin(FMax(offset, 0), FMax(max_scroll, 0))

\* max_scroll of on_scroll.  With no data row_count is 0, cell_height is not
\* finite and 0.0 * cell_height is NaN.
MaxScroll(c, cfg) ==
    LET plot_height == cfg.height - cfg.padding.top - cfg.padding.bottom
        row_count   == Min(c.visible_rows, Len(c.data))
    IN  IF row_count = 0 THEN NaN
        ELSE FMul((Len(c.data) - row_count) * SCALE,
                  FDiv(plot_height, row_count * SCALE))

\* VarianceHeatmapChart::on_scroll
HeatScroll(c, cfg, delta_y) ==
    LET c1 == [c EXCEPT !.scroll_offset =
                   ClampScroll(FAdd(c.scroll_offset, delta_y), MaxScroll(c, cfg))]
    IN  [c1 EXCEPT !.cell_positions = ComputeCellPositions(c1, cfg)]

RECURSIVE CellUnder(_, _, _, _)
\* the loop of on_mouse_move: the first cell (1-based position in
\* cell_positions) that holds the pointer and whose row has data, or None
CellUnder(c, x, y, k) ==
    IF k > Len(c.cell_positions) THEN None
    ELSE LET cell == c.cell_positions[k]
         IN  IF /\ ~IsNaN(x) /\ ~IsNaN(y)
                /\ x >= cell.x /\ x <= cell.x + cell.width
                /\ y >= cell.y /\ y <= cell.y + cell.height
                /\ cell.row < Len(c.data)
             THEN k
             ELSE CellUnder(c, x, y, k + 1)

\* VarianceHeatmapChart::on_mouse_move: [chart, val].  hovered_cell is <<>>
\* for None and <<row, col>> for Some((row, col)); the payload's reference,
\* assessor and mean are left out.
HeatMouseMove(c, x, y) ==
    LET k == CellUnder(c, x, y, 1)
    IN  IF k # None
        THEN LET cell == c.cell_positions[k]
                 data == c.data[cell.row + 1]
             IN  [chart |-> [c EXCEPT !.hovered_cell = <<cell.row, cell.col>>],
                  val |-> Hit(data.application_id \o "-" \o ToString(cell.col),
                              "heatmap_cell",
                              [applicationId |-> data.application_id,
                               score |-> IF cell.col < Len(data.scores)
                                         THEN data.scores[cell.col + 1] ELSE None,
                               variance |-> data.variance,
                               flagged |-> data.flagged])]
        ELSE [chart |-> [c EXCEPT !.hovered_cell = <<>>], val |-> Miss]

----------------------------------------------------------------------------
(* Timeline (timeline.rs): data assignment *)

TimelinePoint(timestamp, count, cumulative) ==
    [timestamp |-> timestamp, count |-> count, cumulative |-> cumulative]

TimelinePayloads ==
    {<<>>,
     <<TimelinePoint(1000, 3, 3)>>,
     <<TimelinePoint(2000, 2, 2), TimelinePoint(5000, 7, 9)>>,
     <<TimelinePoint(2000, 1, 1), TimelinePoint(2000, 2, 3),
       TimelinePoint(2090, 0, 3), TimelinePoint(5000, 4, 7)>>}

TlNew ==
    [data |-> <<>>, events |-> <<>>, time_range |-> <<0, 0>>,
     max_count |-> 0, max_cumulative |-> 0, show_cumulative |-> TRUE,
     hovered_point |-> None, granularity |-> "day"]

RECURSIVE MinOf(_, _)
\* fold(f64::INFINITY, f64::min) over a non-empty sequence
MinOf(seq, k) ==
    IF k = Len(seq) THEN seq[k] ELSE Min(seq[k], MinOf(seq, k + 1))

RECURSIVE MaxTs(_, _)
\* fold(f64::NEG_INFINITY, f64::max) over a non-empty sequence
MaxTs(seq, k) ==
    IF k = Len(seq) THEN seq[k] ELSE Max(seq[k], MaxTs(seq, k + 1))

\* TimelineChart::set_data: [chart, val].  An empty list only clears
\* self.data.
TlSetData(c, data_js) ==
    IF ~data_js.ok THEN [chart |-> c, val |-> "err"]
    ELSE IF Len(data_js.items) = 0
    THEN [chart |-> [c EXCEPT !.data = <<>>], val |-> "ok"]
    ELSE LET pts == data_js.items
             ts  == [k \in 1..Len(pts) |-> pts[k].timestamp]
         IN  [chart |-> [c EXCEPT
                           !.time_range = <<MinOf(ts, 1), MaxTs(ts, 1)>>,
                           !.max_count =
                               MaxOf([k \in 1..Len(pts) |-> pts[k].count], 1),
                           !.max_cumulative =
                               MaxOf([k \in 1..Len(pts) |-> pts[k].cumulative], 1),
                           !.data = pts],
              val |-> "ok"]

\* TimelineChart::set_events: [chart, val]
TlSetEvents(c, events_js) ==
    IF ~events_js.ok THEN [chart |-> c, val |-> "err"]
    ELSE [chart |-> [c EXCEPT !.events = events_js.items], val |-> "ok"]

\* TimelineChart::set_granularity
TlSetGranularity(c, granularity) == [c EXCEPT !.granularity = granularity]

\* TimelineChart::set_show_cumulative
TlSetShowCumulative(c, show) == [c EXCEPT !.show_cumulative = show]

\* padding.left + ((point.timestamp - time_range.0) / time_span) * plot_width
\* for the point of index i; 0.0 / 0.0 is NaN when the time span is zero
ProjectX(c, cfg, i) ==
    LET plot_width == cfg.width - cfg.padding.left - cfg.padding.right
        time_span  == c.time_range[2] - c.time_range[1]
    IN  IF time_span <= 0 THEN NaN
        ELSE cfg.padding.left
             + Rnd((c.data[i + 1].timestamp - c.time_range[1]) * plot_width, time_span)

RECURSIVE ClosestPointTiesLast(_, _, _, _, _, _)
\* a scan that lets a point at the same distance replace the one found
ClosestPointTiesLast(c, cfg, x, i, min_dist, closest_idx) ==
    IF i >= Len(c.data) THEN closest_idx
    ELSE LET px   == ProjectX(c, cfg, i)
             dist == IF IsNaN(px) \/ IsNaN(x) THEN NaN ELSE Abs(px - x)
         IN  IF /\ ~IsNaN(dist)
                /\ (min_dist = None \/ dist <= min_dist)
                /\ dist < 30 * SCALE
             THEN ClosestPointTiesLast(c, cfg, x, i + 1, dist, i)
             ELSE ClosestPointTiesLast(c, cfg, x, i + 1, min_dist, closest_idx)

RECURSIVE ClosestPoint(_, _, _, _, _, _)
\* the loop of on_mouse_move: dist < min_dist && dist < 30.0, min_dist
\* starting at infinity (None)
ClosestPoint(c, cfg, x, i, min_dist, closest_idx) ==
    IF i >= Len(c.data) THEN closest_idx
    ELSE LET px   == ProjectX(c, cfg, i)
             dist == IF IsNaN(px) \/ IsNaN(x) THEN NaN ELSE Abs(px - x)
         IN  IF /\ ~IsNaN(dist)
                /\ (min_dist = None \/ dist < min_dist)
                /\ dist < 30 * SCALE
             THEN ClosestPoint(c, cfg, x, i + 1, dist, i)
             ELSE ClosestPoint(c, cfg, x, i + 1, min_dist, closest_idx)

\* padding.left + ((timestamp - time_range.0) / time_span) * plot_width
\* without a test of the time span: 0.0 / 0.0 is NaN
Project(c, cfg, timestamp) ==
    LET plot_width == cfg.width - cfg.padding.left - cfg.padding.right
        time_span  == c.time_range[2] - c.time_range[1]
    IN  IF time_span = 0 THEN NaN
        ELSE cfg.padding.left
             + Rnd((timestamp - c.time_range[1]) * plot_width, time_span)

\* bars drawn without the early return
TlDrawBarsUnguarded(c, cfg) ==
    [i \in 1..Len(c.data) |-> Project(c, cfg, c.data[i].timestamp)]

\* TimelineChart::draw_bars: the projected time of each bar drawn (the
\* bar's left edge is bar_width / 2 to its left)
TlDrawBars(c, cfg) ==
    IF c.time_range[2] - c.time_range[1] <= 0 \/ c.max_count = 0 THEN <<>>
    ELSE [i \in 1..Len(c.data) |-> Project(c, cfg, c.data[i].timestamp)]

\* TimelineChart::draw_cumulative_line: the x of each point of the line
TlDrawCumulativeLine(c, cfg) ==
    IF c.time_range[2] - c.time_range[1] <= 0 \/ c.max_cumulative = 0 THEN <<>>
    ELSE [i \in 1..Len(c.data) |-> Project(c, cfg, c.data[i].timestamp)]

\* TimelineChart::draw_events: the x of each event marker
TlDrawEvents(c, cfg) ==
    IF c.time_range[2] - c.time_range[1] <= 0 THEN <<>>
    ELSE [i \in 1..Len(c.events) |-> Project(c, cfg, c.events[i].timestamp)]

\* TimelineChart::on_mouse_move: [chart, val].  The payload's date and label
\* strings are left out.
TlMouseMove(c, cfg, x, y) ==
    IF c.time_range[2] - c.time_range[1] <= 0 THEN [chart |-> c, val |-> Miss]
    ELSE LET idx == ClosestPoint(c, cfg, x, 0, None, None)
             c1  == [c EXCEPT !.hovered_point = idx]
         IN  IF idx # None
             THEN [chart |-> c1,
                   val |-> Hit("point-" \o ToString(idx), "timeline_point",
                               [index |-> idx,
                                timestamp |-> c.data[idx + 1].timestamp,
                                count |-> c.data[idx + 1].count,
                                cumulative |-> c.data[idx + 1].cumulative])]
             ELSE [chart |-> c1, val |-> Miss]

----------------------------------------------------------------------------
(* render of the five charts: the drawing routines called, in order, after
   the surface was found and cleared *)

Layers(always, optional) == SelectSeq(always, LAMBDA l : l \notin optional)

\* NetworkGraphChart::render
NetRender(c) ==
    IF Len(c.nodes) = 0 THEN <<"empty_state">>
    ELSE <<"edges", "nodes", "overlay">>

\* ScoreDistributionChart::render
HistRender(c, cfg) ==
    Layers(<<"grid", "bars", "axes", "labels">>,
           (IF cfg.show_grid THEN {} ELSE {"grid"})
               \cup (IF cfg.show_labels THEN {} ELSE {"labels"}))

\* ProgressTrackerChart::render
ProgRender(c, cfg) ==
    IF Len(c.segments) = 0 THEN <<"empty_state">>
    ELSE Layers(<<"donut", "center_text", "legend">>,
                IF cfg.show_legend THEN {} ELSE {"legend"})

\* VarianceHeatmapChart::render
HeatRender(c, cfg) ==
    IF Len(c.data) = 0 THEN <<"empty_state">>
    ELSE Layers(<<"header", "row_labels", "column_headers", "cells",
                  "variance_column", "legend">>,
                IF cfg.show_legend THEN {} ELSE {"legend"})

\* TimelineChart::render
TlRender(c, cfg) ==
    IF Len(c.data) = 0 THEN <<"empty_state">>
    ELSE Layers(<<"grid", "events", "bars", "cumulative_line", "axes",
                  "labels", "legend">>,
                (IF cfg.show_grid THEN {} ELSE {"grid"})
                    \cup (IF c.show_cumulative THEN {} ELSE {"cumulative_line"})
                    \cup (IF cfg.show_labels THEN {} ELSE {"labels"})
                    \cup (IF cfg.show_legend THEN {} ELSE {"legend"}))

----------------------------------------------------------------------------
(* Inputs of the calls *)

Kinds == {"network", "histogram", "progress", "heatmap", "timeline"}

NodeInputs == {Payload(p) : p \in NodePayloads} \cup {Malformed}
EdgeInputs == {Payload(p) : p \in EdgePayloads} \cup {Malformed}
ScoreInputs == {Payload(p) : p \in ScorePayloads} \cup {Malformed}
SegmentInputs == {Payload(p) : p \in SegmentPayloads} \cup {Malformed}
\* more rows than fit: two rows beyond visible_rows
ScrollableRows ==
    [k \in 1..(HeatNew.visible_rows + 2) |->
        VarianceRow("r" \o ToString(k), <<50 * SCALE>>, 0, FALSE)]

VarianceInputs ==
    {Payload(p) : p \in VariancePayloads \cup {ScrollableRows}} \cup {Malformed}

\* wheel deltas in pixels: small and large, both signs, and NaN
ScrollInputs == {10 * SCALE, -25 * SCALE, 1000000 * SCALE, -1000000 * SCALE, NaN}
TimelineInputs == {Payload(p) : p \in TimelinePayloads} \cup {Malformed}

\* arguments of the auxiliary setters
ThresholdInputs == {5 * SCALE}
LabelInputs == {"Done"}
GranularityInputs == {"hour"}
EventInputs ==
    {Payload(<<>>),
     Payload(<<[timestamp |-> 3000, label |-> "Deadline", event_type |-> "deadline"]>>),
     Malformed}

\* frame times handed to animate, in milliseconds
AnimateInputs == {250 * SCALE, 500 * SCALE}

\* pointer positions over the donut of the default configuration (centre
\* (400, 200), band 84..140): in the band straight above, right of, below and
\* left of the centre, on the upper-left diagonal, on the outer edge, and the
\* centre itself
DonutPointers ==
    {<<400 * SCALE, 88 * SCALE>>, <<512 * SCALE, 200 * SCALE>>,
     <<400 * SCALE, 312 * SCALE>>, <<288 * SCALE, 200 * SCALE>>,
     <<321 * SCALE, 121 * SCALE>>, <<540 * SCALE, 200 * SCALE>>,
     <<400 * SCALE, 200 * SCALE>>}

\* pointer positions over the plot area of the default configuration (x from
\* 60 to 760, y from 40 to 340): on the left and right edge, 21 px and 11 px
\* right of the left edge, mid-plot, and left of the plot
PlotPointers ==
    {<<60 * SCALE, 100 * SCALE>>, <<81 * SCALE, 300 * SCALE>>,
     <<71 * SCALE, 100 * SCALE>>, <<760 * SCALE, 100 * SCALE>>,
     <<400 * SCALE, 100 * SCALE>>, <<30 * SCALE, 100 * SCALE>>}

\* pointer positions in canvas pixels: near the inner ring at angle 0 and
\* near the outer ring at angle PI
Pointers == {<<440 * SCALE, 195 * SCALE>>, <<280 * SCALE, 195 * SCALE>>}

\* (delta, center_x, center_y) given to on_zoom: halve the zoom, or zoom in
\* beyond the upper bound, around the first pointer position
ZoomInputs == {<<500 * SCALE, 440 * SCALE, 195 * SCALE>>,
               <<-5000 * SCALE, 440 * SCALE, 195 * SCALE>>}

\* (dx, dy) given to on_pan: brings the first pointer's node under the second
PanInputs == {<<-160 * SCALE, 0>>}

\* (repulsion, attraction, damping) given to set_physics
PhysicsInputs == {<<500 * SCALE, 5, 90>>, <<0, 5, 0>>}

\* the last call: operation, arguments (recorded for set_data and new),
\* returned value
Call(op, arg, val) == [op |-> op, arg |-> arg, val |-> val]

----------------------------------------------------------------------------
(* The state machine *)

instance == <<kind, config>>
others   == <<hist, prog, heat, tl>>

Init ==
    /\ kind = "none"
    /\ config = ConfigDefault
    /\ net = NetNew
    /\ hist = HistNew
    /\ prog = ProgNew
    /\ heat = HeatNew
    /\ tl = TlNew
    /\ seed = SeedInit
    /\ ret = Call("none", <<>>, "none")
    /\ panicked = FALSE
    /\ halt = "none"
    /\ loads = 0
    /\ steps = 0
    /\ events = 0

\* the result of a constructor: the canvas id is only stored, the surface
\* is looked up by render
NewResult(resolves) == "ok"

\* render of the chart of this instance: get_canvas_context fails when the
\* canvas id resolves to no element, else the surface is cleared and drawn
RenderResult(canvas_resolves) ==
    IF ~canvas_resolves THEN [val |-> "err", drawn |-> <<>>]
    ELSE [val |-> "ok",
          drawn |-> CASE kind = "network"   -> NetRender(net)
                      [] kind = "histogram" -> HistRender(hist, config)
                      [] kind = "progress"  -> ProgRender(prog, config)
                      [] kind = "heatmap"   -> HeatRender(heat, config)
                      [] kind = "timeline"  -> TlRender(tl, config)]

\* NetworkGraphChart::new, ScoreDistributionChart::new, ..: the constructors
New ==
    /\ kind = "none"
    /\ \E k \in Kinds, cfg \in Configs, canvas_resolves \in BOOLEAN :
          /\ kind' = k
          /\ config' = cfg
          /\ ret' = Call("new", <<k, canvas_resolves>>, NewResult(canvas_resolves))
    /\ UNCHANGED <<net, others, seed, panicked, halt, loads,
                   steps, events>>

Live(k) == kind = k /\ ~panicked

SetData ==
    /\ Live("network")
    /\ loads < MaxLoads
    /\ \E nodes_js \in NodeInputs, edges_js \in EdgeInputs :
          LET r == NetSetData(net, config, seed, nodes_js, edges_js)
          IN  /\ net' = r.net
              /\ seed' = r.seed
              /\ ret' = Call("set_data", <<nodes_js, edges_js>>, r.val)
              /\ loads' = IF r.val = "ok" THEN loads + 1 ELSE loads
              /\ halt' = IF r.val = "ok" THEN "none" ELSE halt
    /\ UNCHANGED <<instance, others, panicked, steps, events>>

SetPhysics ==
    /\ Live("network")
    /\ \E p \in PhysicsInputs :
          /\ net' = NetSetPhysics(net, p[1], p[2], p[3])
          /\ ret' = Call("set_physics", <<>>, "unit")
    /\ UNCHANGED <<instance, others, seed, panicked, halt, loads, steps, events>>

ToggleSimulation ==
    /\ Live("network")
    /\ net' = NetToggle(net)
    /\ ret' = Call("toggle_simulation", <<>>, net'.simulation_running)
    /\ halt' = IF net'.simulation_running THEN "none" ELSE "toggle"
    /\ UNCHANGED <<instance, others, seed, panicked, loads, steps, events>>

StepSimulation ==
    /\ Live("network")
    /\ LET r == NetStep(net, config)
       IN  /\ r.stepped => steps < MaxSteps
           /\ net' = r.net
           /\ ret' = Call("step_simulation", <<>>, r.val)
           /\ steps' = IF r.stepped THEN steps + 1 ELSE steps
           /\ halt' = IF net.simulation_running /\ ~r.net.simulation_running
                      THEN "settle" ELSE halt
    /\ UNCHANGED <<instance, others, seed, panicked, loads, events>>

OnMouseDown ==
    /\ Live("network")
    /\ events < MaxEvents
    /\ \E p \in Pointers :
          LET r == NetMouseDown(net, p[1], p[2])
          IN  /\ net' = r.net
              /\ ret' = Call("on_mouse_down", <<>>, r.val)
              /\ panicked' = r.panic
    /\ events' = events + 1
    /\ UNCHANGED <<instance, others, seed, halt, loads, steps>>

OnMouseUp ==
    /\ Live("network")
    /\ events < MaxEvents
    /\ LET r == NetMouseUp(net)
       IN  /\ net' = r.net
           /\ ret' = Call("on_mouse_up", <<>>, r.val)
           /\ panicked' = r.panic
    /\ events' = events + 1
    /\ UNCHANGED <<instance, others, seed, halt, loads, steps>>

OnMouseMove ==
    /\ Live("network")
    /\ events < MaxEvents
    /\ \E p \in Pointers :
          LET r == NetMouseMove(net, p[1], p[2])
          IN  /\ net' = r.net
              /\ ret' = Call("on_mouse_move", <<>>, r.val)
              /\ panicked' = r.panic
    /\ events' = events + 1
    /\ UNCHANGED <<instance, others, seed, halt, loads, steps>>

OnClick ==
    /\ Live("network")
    /\ events < MaxEvents
    /\ \E p \in Pointers, multi_select \in BOOLEAN :
          LET r == NetClick(net, p[1], p[2], multi_select)
          IN  /\ net' = r.net
              /\ ret' = Call("on_click", <<>>, r.val)
              /\ panicked' = r.panic
    /\ events' = events + 1
    /\ UNCHANGED <<instance, others, seed, halt, loads, steps>>

OnZoom ==
    /\ Live("network")
    /\ events < MaxEvents
    /\ \E z \in ZoomInputs :
          /\ net' = NetZoom(net, z[1], z[2], z[3])
          /\ ret' = Call("on_zoom", <<>>, "unit")
    /\ events' = events + 1
    /\ UNCHANGED <<instance, others, seed, panicked, halt, loads, steps>>

OnPan ==
    /\ Live("network")
    /\ events < MaxEvents
    /\ \E d \in PanInputs :
          /\ net' = NetPan(net, d[1], d[2])
          /\ ret' = Call("on_pan", <<>>, "unit")
    /\ events' = events + 1
    /\ UNCHANGED <<instance, others, seed, panicked, halt, loads, steps>>

ResetView ==
    /\ Live("network")
    /\ events < MaxEvents
    /\ net' = NetResetView(net)
    /\ ret' = Call("reset_view", <<>>, "unit")
    /\ events' = events + 1
    /\ UNCHANGED <<instance, others, seed, panicked, halt, loads, steps>>

FitToContent ==
    /\ Live("network")
    /\ events < MaxEvents
    /\ net' = NetFitToContent(net, config)
    /\ ret' = Call("fit_to_content", <<>>, "unit")
    /\ events' = events + 1
    /\ UNCHANGED <<instance, others, seed, panicked, halt, loads, steps>>

netvars == <<net, seed, halt, loads, steps, events>>

HistogramSetData ==
    /\ Live("histogram")
    /\ \E data_js \in ScoreInputs, bin_count \in BinCounts :
          LET r == HistSetData(hist, data_js, bin_count)
          IN  /\ hist' = r.chart
              /\ ret' = Call("set_data", <<data_js, bin_count>>, r.val)
              /\ panicked' = r.panic
    /\ UNCHANGED <<instance, netvars, prog, heat, tl>>

ProgressSetData ==
    /\ Live("progress")
    /\ \E data_js \in SegmentInputs :
          LET r == ProgSetData(prog, data_js)
          IN  /\ prog' = r.chart
              /\ ret' = Call("set_data", <<data_js>>, r.val)
    /\ UNCHANGED <<instance, netvars, hist, heat, tl, panicked>>

Animate ==
    /\ Live("progress")
    /\ \E delta_ms \in AnimateInputs :
          LET r == ProgAnimate(prog, delta_ms)
          IN  /\ prog' = r.chart
              /\ ret' = Call("animate", <<delta_ms>>, r.val)
    /\ UNCHANGED <<instance, netvars, hist, heat, tl, panicked>>

ProgressOnMouseMove ==
    /\ Live("progress")
    /\ \E p \in DonutPointers :
          LET r == ProgMouseMove(prog, config, p[1], p[2])
          IN  /\ prog' = r.chart
              /\ ret' = Call("on_mouse_move", p, r.val)
    /\ UNCHANGED <<instance, netvars, hist, heat, tl, panicked>>

HeatmapSetData ==
    /\ Live("heatmap")
    /\ \E data_js \in VarianceInputs :
          LET r == HeatSetData(heat, config, data_js)
          IN  /\ heat' = r.chart
              /\ ret' = Call("set_data", <<data_js>>, r.val)
    /\ UNCHANGED <<instance, netvars, hist, prog, tl, panicked>>

OnScroll ==
    /\ Live("heatmap")
    /\ \E delta_y \in ScrollInputs :
          /\ heat' = HeatScroll(heat, config, delta_y)
          /\ ret' = Call("on_scroll", <<delta_y>>, "unit")
    /\ UNCHANGED <<instance, netvars, hist, prog, tl, panicked>>

TimelineSetData ==
    /\ Live("timeline")
    /\ \E data_js \in TimelineInputs :
          LET r == TlSetData(tl, data_js)
          IN  /\ tl' = r.chart
              /\ ret' = Call("set_data", <<data_js>>, r.val)
    /\ UNCHANGED <<instance, netvars, hist, prog, heat, panicked>>

TimelineOnMouseMove ==
    /\ Live("timeline")
    /\ \E p \in PlotPointers :
          LET r == TlMouseMove(tl, config, p[1], p[2])
          IN  /\ tl' = r.chart
              /\ ret' = Call("on_mouse_move", p, r.val)
    /\ UNCHANGED <<instance, netvars, hist, prog, heat, panicked>>

HistogramOnMouseMove ==
    /\ Live("histogram")
    /\ \E p \in PlotPointers :
          LET r == HistMouseMove(hist, config, p[1], p[2])
          IN  /\ hist' = r.chart
              /\ ret' = Call("on_mouse_move", p, r.val)
    /\ UNCHANGED <<instance, netvars, prog, heat, tl, panicked>>

HeatmapOnMouseMove ==
    /\ Live("heatmap")
    /\ \E p \in PlotPointers :
          LET r == HeatMouseMove(heat, p[1], p[2])
          IN  /\ heat' = r.chart
              /\ ret' = Call("on_mouse_move", p, r.val)
    /\ UNCHANGED <<instance, netvars, hist, prog, tl, panicked>>

SetCenterLabel ==
    /\ Live("progress")
    /\ \E label \in LabelInputs :
          /\ prog' = ProgSetCenterLabel(prog, label)
          /\ ret' = Call("set_center_label", <<label>>, "unit")
    /\ UNCHANGED <<instance, netvars, hist, heat, tl, panicked>>

SetVarianceThreshold ==
    /\ Live("heatmap")
    /\ \E threshold \in ThresholdInputs :
          /\ heat' = HeatSetVarianceThreshold(heat, threshold)
          /\ ret' = Call("set_variance_threshold", <<threshold>>, "unit")
    /\ UNCHANGED <<instance, netvars, hist, prog, tl, panicked>>

SetEvents ==
    /\ Live("timeline")
    /\ \E events_js \in EventInputs :
          LET r == TlSetEvents(tl, events_js)
          IN  /\ tl' = r.chart
              /\ ret' = Call("set_events", <<events_js>>, r.val)
    /\ UNCHANGED <<instance, netvars, hist, prog, heat, panicked>>

SetGranularity ==
    /\ Live("timeline")
    /\ \E granularity \in GranularityInputs :
          /\ tl' = TlSetGranularity(tl, granularity)
          /\ ret' = Call("set_granularity", <<granularity>>, "unit")
    /\ UNCHANGED <<instance, netvars, hist, prog, heat, panicked>>

SetShowCumulative ==
    /\ Live("timeline")
    /\ \E show \in BOOLEAN :
          /\ tl' = TlSetShowCumulative(tl, show)
          /\ ret' = Call("set_show_cumulative", <<show>>, "unit")
    /\ UNCHANGED <<instance, netvars, hist, prog, heat, panicked>>

Render ==
    /\ kind # "none" /\ ~panicked
    /\ \E canvas_resolves \in BOOLEAN :
          ret' = Call("render", <<canvas_resolves>>, RenderResult(canvas_resolves))
    /\ UNCHANGED <<instance, netvars, hist, prog, heat, tl, panicked>>

Next ==
    \/ New
    \/ SetData
    \/ SetPhysics
    \/ ToggleSimulation
    \/ StepSimulation
    \/ OnMouseDown
    \/ OnMouseUp
    \/ OnMouseMove
    \/ OnClick
    \/ OnZoom
    \/ OnPan
    \/ ResetView
    \/ FitToContent
    \/ HistogramSetData
    \/ ProgressSetData
    \/ Animate
    \/ ProgressOnMouseMove
    \/ HeatmapSetData
    \/ OnScroll
    \/ TimelineSetData
    \/ TimelineOnMouseMove
    \/ HistogramOnMouseMove
    \/ HeatmapOnMouseMove
    \/ SetCenterLabel
    \/ SetVarianceThreshold
    \/ SetEvents
    \/ SetGranularity
    \/ SetShowCumulative
    \/ Render

Spec == Init /\ [][Next]_vars

\* the calls on the histogram, the progress tracker, the heatmap and the
\* timeline: these charts share nothing with the network graph
ChartNext ==
    \/ New
    \/ HistogramSetData
    \/ HistogramOnMouseMove
    \/ ProgressSetData
    \/ Animate
    \/ ProgressOnMouseMove
    \/ HeatmapSetData
    \/ OnScroll
    \/ HeatmapOnMouseMove
    \/ TimelineSetData
    \/ TimelineOnMouseMove
    \/ SetCenterLabel
    \/ SetVarianceThreshold
    \/ SetEvents
    \/ SetGranularity
    \/ SetShowCumulative
    \/ Render

SpecCharts == Init /\ [][ChartNext]_vars

\* a network graph that set_data has just given one node and no edge: an
\* assessor or an application, the generator having made 0, 2, 4 or 6 draws
\* for earlier graphs of the same thread
InitIsolated ==
    /\ kind = "network"
    /\ config = ConfigDefault
    /\ \E node \in {NodeUniverse[1], NodeUniverse[4]}, s0 \in {SeedInit} :
       \E s2 \in {LcgNext(LcgNext(s0))} :
       \E s4 \in {LcgNext(LcgNext(s2))} :
       \E s6 \in {LcgNext(LcgNext(s4))} :
       \E start \in {s0, s2, s4, s6} :
       \E r \in {NetSetData(NetNew, ConfigDefault, start,
                            Payload(<<node>>), Payload(<<>>))} :
          /\ net = r.net
          /\ seed = r.seed
          /\ ret = Call("set_data", <<Payload(<<node>>), Payload(<<>>)>>, r.val)
    /\ hist = HistNew /\ prog = ProgNew /\ heat = HeatNew /\ tl = TlNew
    /\ panicked = FALSE /\ halt = "none"
    /\ loads = 1 /\ steps = 0 /\ events = 0

\* step_simulation called again and again on that graph
Tick ==
    /\ Live("network")
    /\ LET r == NetStep(net, config)
       IN  /\ r.stepped => steps < MaxTicks
           /\ net' = r.net
           /\ ret' = Call("step_simulation", <<>>, r.val)
           /\ steps' = IF r.stepped THEN steps + 1 ELSE steps
           /\ halt' = IF net.simulation_running /\ ~r.net.simulation_running
                      THEN "settle" ELSE halt
    /\ UNCHANGED <<instance, others, seed, panicked, loads, events>>

SpecIsolated == InitIsolated /\ [][Tick]_vars

\* a graph of an assessor and an application, one of which has been grabbed,
\* dropped at a pointer position and released
InitDropped ==
    /\ kind = "network"
    /\ config = ConfigDefault
    /\ \E s0 \in {SeedInit} :
       \E s2 \in {LcgNext(LcgNext(s0))} :
       \E s4 \in {LcgNext(LcgNext(s2))} :
       \E s6 \in {LcgNext(LcgNext(s4))} :
       \E start \in {s0, s2, s4, s6}, grab \in Pointers, drop \in Pointers :
       \E r \in {NetSetData(NetNew, ConfigDefault, start,
                            Payload(<<NodeUniverse[1], NodeUniverse[4]>>),
                            Payload(<<>>))} :
       \E down \in {NetMouseDown(r.net, grab[1], grab[2])} :
       \E move \in {NetMouseMove(down.net, drop[1], drop[2])} :
       \E up \in {NetMouseUp(move.net)} :
          /\ down.val
          /\ net = up.net
          /\ seed = r.seed
          /\ ret = Call("on_mouse_up", <<>>, up.val)
    /\ hist = HistNew /\ prog = ProgNew /\ heat = HeatNew /\ tl = TlNew
    /\ panicked = FALSE /\ halt = "none"
    /\ loads = 1 /\ steps = 0 /\ events = 0

\* the pointer handlers and the physics step on that graph
DragNext ==
    \/ OnMouseDown
    \/ OnMouseMove
    \/ OnMouseUp
    \/ StepSimulation

SpecDropped == InitDropped /\ [][DragNext]_vars

----------------------------------------------------------------------------
(* Properties *)

PointerOps == {"on_mouse_move", "on_mouse_down", "on_mouse_up", "on_click"}

NetCalled(op) == kind = "network" /\ ret.op = op
NetLoaded == NetCalled("set_data") /\ ret.val = "ok"

\* C1: no pointer handler of the network graph panics, whatever set_data,
\* step_simulation and pointer calls came before.
C1_HandlersNeverFail ==
    (kind = "network" /\ ret.op \in PointerOps) => ~panicked

\* C2: a set_data that returns an error leaves every field of the chart as
\* it was before the call.
C2_RejectedSetDataKeepsState ==
    [][(ret'.op = "set_data" /\ ret'.val = "err")
         => (net' = net /\ hist' = hist /\ prog' = prog /\ heat' = heat
             /\ tl' = tl /\ config' = config)]_vars

\* a network set_data was rejected for its edge list alone, with nodes loaded
C2_Witness ==
    /\ NetCalled("set_data") /\ ret.val = "err"
    /\ ret.arg[1].ok /\ Len(ret.arg[1].items) > 0 /\ ~ret.arg[2].ok
    /\ Len(net.nodes) > 0 /\ Len(net.edges) > 0

\* C3: after a successful set_data the derived state is what the same call
\* leaves on a freshly constructed chart: nothing of an earlier call remains.
C3_DerivedStateFromLastCall ==
    (ret.op = "set_data" /\ ret.val = "ok") =>
        /\ kind = "histogram" =>
              LET f == HistSetData(HistNew, ret.arg[1], ret.arg[2]).chart
              IN  /\ hist.bins = f.bins
                  /\ hist.total_count = f.total_count
                  /\ hist.max_count = f.max_count
        /\ kind = "timeline" =>
              LET f == TlSetData(TlNew, ret.arg[1]).chart
              IN  /\ tl.data = f.data
                  /\ tl.time_range = f.time_range
                  /\ tl.max_count = f.max_count
                  /\ tl.max_cumulative = f.max_cumulative
        /\ kind = "heatmap" =>
              LET f == HeatSetData(HeatNew, config, ret.arg[1]).chart
              IN  /\ heat.max_assessors = f.max_assessors
                  /\ heat.scroll_offset = f.scroll_offset
                  /\ heat.cell_positions = f.cell_positions
        /\ kind = "network" =>
              LET f == NetSetData(NetNew, config, SeedInit, ret.arg[1], ret.arg[2]).net
              IN  /\ net.nodes = f.nodes
                  /\ net.edges = f.edges

\* C4: a constructor whose canvas id resolves to no drawing surface returns
\* an error.
C4_UnresolvedSurfaceIsError ==
    (ret.op = "new" /\ ~ret.arg[2]) => ret.val = "err"

\* C5: dragging a node while the simulation is Settled makes it Running.
C5_DragRestartsSimulation ==
    [][(/\ kind = "network"
        /\ halt = "settle"
        /\ net.dragging_node # None
        /\ events' = events + 1
        /\ ret'.op = "on_mouse_move"
        /\ ~panicked')
         => net'.simulation_running]_vars

RECURSIVE NthRand(_, _)
\* the value of the k-th rand_float() call made from seed s
NthRand(s, k) ==
    IF k = 1 THEN rand_float(s).value ELSE NthRand(rand_float(s).seed, k - 1)

\* C6: a successful network set_data leaves the simulation running and every
\* node at rest, unpinned, on its ring with the jitter of the next two draws
\* of the generator: nothing of the node list before the call is kept.
C6_SetDataReseeds ==
    [][(kind = "network" /\ loads' = loads + 1) =>
         /\ net'.simulation_running
         /\ \A i \in 1..Len(net'.nodes) :
               LET nd == net'.nodes[i]
                   cs == CosSin(i - 1, Len(net'.nodes))
                   r  == RingOf(config, nd.node_type)
               IN  /\ nd.vx = 0 /\ nd.vy = 0
                   /\ ~nd.fixed
                   /\ nd.x = CenterX(config) + Rnd(r * cs[1], 1000)
                               + Jitter(NthRand(seed, 2 * i - 1))
                   /\ nd.y = CenterY(config) + Rnd(r * cs[2], 1000)
                               + Jitter(NthRand(seed, 2 * i))]_vars

\* a second load of two nodes, after a physics step and a pointer event, on
\* a chart whose simulation had been halted by a zero damping
C6_Witness ==
    /\ NetLoaded /\ loads = 2 /\ steps = 1 /\ events > 0
    /\ net.damping = 0
    /\ Len(net.nodes) = 2

\* C7: step_simulation returns the running flag it leaves behind.
C7_ReturnsRunningFlag ==
    NetCalled("step_simulation") => ret.val = net.simulation_running

\* C8: a physics step leaves position and velocity of every pinned or dragged
\* node as they were, and as long as the node list is not re-materialized
\* the position of the dragged node changes in on_mouse_move only.
C8_PinnedNodesKeptByStep ==
    [][kind = "network" =>
         /\ (ret'.op = "step_simulation" /\ steps' = steps + 1) =>
               \A i \in 1..Len(net.nodes) :
                   (net.nodes[i].fixed \/ net.dragging_node = i - 1) =>
                       /\ net'.nodes[i].x = net.nodes[i].x
                       /\ net'.nodes[i].y = net.nodes[i].y
                       /\ net'.nodes[i].vx = net.nodes[i].vx
                       /\ net'.nodes[i].vy = net.nodes[i].vy
         /\ (loads' = loads /\ net.dragging_node # None
             /\ net.dragging_node < Len(net.nodes)
             /\ ~panicked') =>
               LET d == net.dragging_node + 1
               IN  (net'.nodes[d].x # net.nodes[d].x \/ net'.nodes[d].y # net.nodes[d].y)
                       => ret'.op = "on_mouse_move"]_vars

\* a step moved a free node while another node was held by the pointer
C8_Witness ==
    /\ NetCalled("step_simulation") /\ ret.val = TRUE /\ steps = 1
    /\ net.dragging_node # None /\ net.dragging_node < Len(net.nodes)
    /\ net.nodes[net.dragging_node + 1].fixed
    /\ \E i \in 1..Len(net.nodes) : net.nodes[i].vx # 0 \/ net.nodes[i].vy # 0

\* C9: the initial positions of a load are those of the first load of the
\* same lists on the same configuration.
C9_SeedingReproducible ==
    NetLoaded =>
        net.nodes = Materialize(config, ret.arg[1].items, 0, SeedInit, <<>>).nodes

\* the edges of c whose two endpoints name nodes of c
HasNode(c, id) == \E k \in 1..Len(c.nodes) : c.nodes[k].id = id
WithoutDangling(c) ==
    [c EXCEPT !.edges = SelectSeq(c.edges,
                            LAMBDA e : HasNode(c, e.source) /\ HasNode(c, e.target))]

\* C10: a physics step on a graph with edges that name absent nodes gives
\* every node the position and velocity it gets without those edges.
C10_DanglingEdgesSkipped ==
    kind = "network" =>
        LET with    == NetStep(net, config)
            without == NetStep(WithoutDangling(net), config)
        IN  /\ with.net.nodes = without.net.nodes
            /\ with.net.simulation_running = without.net.simulation_running
            /\ with.val = without.val

\* a step was taken on two connected nodes with dangling edges in the list
C10_Witness ==
    /\ NetCalled("step_simulation") /\ ret.val = TRUE
    /\ Len(net.nodes) = 2
    /\ Len(WithoutDangling(net).edges) = 1
    /\ Len(net.edges) = 3
    /\ net.attraction_strength > 0
    /\ \A i \in 1..2 : net.nodes[i].vx # 0

\* pointer positions the hit-test is evaluated at: those of the pointer
\* events and one between the two seeded nodes
ProbePoints == Pointers \cup {<<260 * SCALE, 190 * SCALE>>}

\* squared distance test of the policy: the pointer, taken to simulation
\* space, is closer to node k (1-based) than 1.5 times its size
InReach(c, p, k) ==
    LET tx == FDiv(FSub(p[1], c.pan_x), c.zoom)
        ty == FDiv(FSub(p[2], c.pan_y), c.zoom)
        dx == FSub(tx, c.nodes[k].x)
        dy == FSub(ty, c.nodes[k].y)
        r  == (c.nodes[k].size * 3) \div 2
    IN  /\ ~IsNaN(dx) /\ ~IsNaN(dy)
        /\ Abs(dx) <= r /\ Abs(dy) <= r
        /\ 4 * (dx * dx + dy * dy) < 9 * c.nodes[k].size * c.nodes[k].size

\* the node the policy resolves the pointer to (0-based), or None
Resolved(c, p) ==
    LET hits == {k \in 1..Len(c.nodes) : InReach(c, p, k)}
    IN  IF hits = {} THEN None
        ELSE (CHOOSE k \in hits : \A j \in hits : k <= j) - 1

\* C11: on_mouse_down, on_mouse_move without a drag and on_click resolve a
\* pointer to the same node: the lowest-index node within 1.5 times its size
\* of the pointer in simulation space, or none.
C11_SharedHitPolicy ==
    kind = "network" =>
        \A p \in ProbePoints :
            LET e     == Resolved(net, p)
                down  == NetMouseDown(net, p[1], p[2])
                hover == NetMouseMove(net, p[1], p[2])
                click == NetClick(net, p[1], p[2], FALSE)
            IN  /\ down.val = (e # None)
                /\ down.net.dragging_node = IF e = None THEN net.dragging_node ELSE e
                /\ net.dragging_node = None =>
                      /\ hover.net.hovered_node = e
                      /\ hover.val.hit = (e # None)
                      /\ e # None => hover.val.element_id = <<net.nodes[e + 1].id>>
                /\ click.net.selected_nodes = IF e = None THEN <<>> ELSE <<e>>

\* after a pointer event two nodes are in reach of one pointer and the one
\* with the higher index is the nearer
C11_Witness ==
    /\ kind = "network" /\ ret.op \in PointerOps /\ Len(net.nodes) = 2
    /\ \E p \in ProbePoints :
          LET t  == ToSim(net, p[1], p[2])
              d1 == Hypot(FSub(t[1], net.nodes[1].x), FSub(t[2], net.nodes[1].y))
              d2 == Hypot(FSub(t[1], net.nodes[2].x), FSub(t[2], net.nodes[2].y))
          IN  InReach(net, p, 1) /\ InReach(net, p, 2) /\ d2 < d1

Members(seq) == {seq[k] : k \in 1..Len(seq)}

\* C12: a click on a node makes it the selection in single-select mode and
\* toggles its membership, keeping the other members, in multi-select mode;
\* a click on empty space clears the selection in single-select mode and
\* keeps it in multi-select mode.
C12_ClickSelection ==
    kind = "network" =>
        \A p \in ProbePoints, multi_select \in BOOLEAN :
            LET e      == Resolved(net, p)
                before == net.selected_nodes
                after  == NetClick(net, p[1], p[2], multi_select).net.selected_nodes
                others_of(seq) == SelectSeq(seq, LAMBDA idx : idx # e)
            IN  /\ (e # None /\ ~multi_select) => after = <<e>>
                /\ (e # None /\ multi_select) =>
                      /\ (e \in Members(after)) = (e \notin Members(before))
                      /\ others_of(after) = others_of(before)
                      /\ Len(after) = Len(others_of(before))
                                        + (IF e \in Members(before) THEN 0 ELSE 1)
                /\ (e = None /\ ~multi_select) => after = <<>>
                /\ (e = None /\ multi_select) => after = before

\* a multi-select click added a second node to the selection
C12_Witness ==
    /\ NetCalled("on_click") /\ ~panicked
    /\ Len(net.selected_nodes) = 2
    /\ net.selected_nodes[1] # net.selected_nodes[2]

\* C13: the zoom factor stays within [0.3, 3.0].
C13_ZoomWithinBounds ==
    kind = "network" => (~IsNaN(net.zoom) /\ net.zoom >= 30 /\ net.zoom <= 300)

\* an on_zoom call was clamped at the lower bound
C13_Witness ==
    /\ NetCalled("on_zoom") /\ net.zoom = 30
    /\ Len(net.nodes) > 0

\* (delta, center_x, center_y) the zoom relations are evaluated at
ZoomProbes ==
    {<<d * SCALE, p[1], p[2]>> :
        d \in {-5000, -500, -100, 100, 500, 5000}, p \in Pointers}

\* C14: on_zoom keeps the simulation-space point under the cursor, also when
\* the new zoom is clamped (to 0.05 px, the resolution of the fixed point).
C14_ZoomKeepsCursorPoint ==
    kind = "network" =>
        \A z \in ZoomProbes :
            LET zoomed == NetZoom(net, z[1], z[2], z[3])
                old    == ToSim(net, z[2], z[3])
                new    == ToSim(zoomed, z[2], z[3])
            IN  /\ Abs(new[1] - old[1]) <= 5
                /\ Abs(new[2] - old[2]) <= 5

\* on_zoom was called on a panned view that is not at the default zoom
C14_Witness ==
    /\ NetCalled("on_zoom")
    /\ net.zoom # SCALE /\ net.pan_x # 0 /\ net.pan_y # 0
    /\ \E z \in ZoomProbes :
          /\ ZoomTarget(net.zoom, z[1]) # ZoomTargetUnclamped(net.zoom, z[1])
          /\ z[2] # 440 * SCALE

\* C15: on_zoom(d, cx, cy) followed by on_zoom(-d, cx, cy) restores zoom
\* (to 0.01) and pan (to 0.1 px).
C15_ZoomRoundTrip ==
    kind = "network" =>
        \A z \in ZoomProbes :
            LET back == NetZoom(NetZoom(net, z[1], z[2], z[3]), -z[1], z[2], z[3])
            IN  /\ Abs(back.zoom - net.zoom) <= 1
                /\ Abs(back.pan_x - net.pan_x) <= 10
                /\ Abs(back.pan_y - net.pan_y) <= 10

\* a histogram set_data of a non-empty list has just returned ok
HistLoaded ==
    /\ kind = "histogram" /\ ret.op = "set_data" /\ ret.val = "ok"
    /\ Len(ret.arg[1].items) > 0

\* the bins (1-based) that list the record among their applications
BinsOf(d) ==
    {b \in 1..Len(hist.bins) :
        \E k \in 1..Len(hist.bins[b].applications) :
            hist.bins[b].applications[k] = d.application_id}

RECURSIVE SumCounts(_, _)
SumCounts(bins, b) ==
    IF b > Len(bins) THEN 0 ELSE bins[b].count + SumCounts(bins, b + 1)

\* score / max_score * 100 lies in [lo, hi), as an exact comparison of
\* products; the percentage is 0 when max_score <= 0
PctIn(d, lo, hi) ==
    IF d.max_score > 0
    THEN /\ lo * d.max_score <= d.score * 100 * SCALE
         /\ d.score * 100 * SCALE < hi * d.max_score
    ELSE lo <= 0 /\ 0 < hi
PctIs100(d) == d.max_score > 0 /\ d.score = d.max_score
PctBelow0(d) == d.max_score > 0 /\ d.score < 0
PctAbove100(d) == d.max_score > 0 /\ d.score > d.max_score

\* the range of bin b contains the record's percentage; the last bin also
\* takes 100
RangeHolds(d, b) ==
    \/ PctIn(d, hist.bins[b].min, hist.bins[b].max)
    \/ b = Len(hist.bins) /\ PctIs100(d)

\* C16 (as stated): every record is counted in exactly one bin, the one whose
\* range contains its percentage, and the counts sum to the number of
\* records.
C16_RecordInContainingBin ==
    HistLoaded =>
        /\ Len(hist.bins) = ret.arg[2]
        /\ SumCounts(hist.bins, 1) = Len(ret.arg[1].items)
        /\ \A k \in 1..Len(ret.arg[1].items) :
              LET d == ret.arg[1].items[k]
              IN  /\ Cardinality(BinsOf(d)) = 1
                  /\ \A b \in BinsOf(d) : RangeHolds(d, b)

\* C16 (amended): every record is counted in exactly one bin and the counts
\* sum to the number of records; a record whose percentage lies in [0, 100]
\* is in the bin whose range contains it, a negative percentage is put into
\* the first bin and one above 100 into the last.
C16_RecordInOneBin ==
    HistLoaded =>
        /\ Len(hist.bins) = ret.arg[2]
        /\ SumCounts(hist.bins, 1) = Len(ret.arg[1].items)
        /\ \A b \in 1..Len(hist.bins) :
              hist.bins[b].count = Len(hist.bins[b].applications)
        /\ \A k \in 1..Len(ret.arg[1].items) :
              LET d == ret.arg[1].items[k]
              IN  /\ Cardinality(BinsOf(d)) = 1
                  /\ \A b \in BinsOf(d) :
                        IF PctBelow0(d) THEN b = 1
                        ELSE IF PctAbove100(d) THEN b = Len(hist.bins)
                        ELSE RangeHolds(d, b)

\* the example: scores 10, 30, 55, 95 of 100 in four bins, one record each
C16_Witness ==
    /\ HistLoaded
    /\ ret.arg[1].items = ScoreExample /\ ret.arg[2] = 4
    /\ \A b \in 1..4 : hist.bins[b].count = 1
    /\ hist.bins[4].applications = <<"s4">>

\* C17: set_data with an empty list returns ok and leaves no bin and zero
\* total_count and max_count, whatever the chart held before.
C17_EmptyListClears ==
    [][(kind = "histogram" /\ ret'.op = "set_data" /\ ret'.arg[1] = Payload(<<>>))
         => /\ ret'.val = "ok"
            /\ ~panicked'
            /\ hist'.bins = <<>>
            /\ hist'.total_count = 0
            /\ hist'.max_count = 0]_vars

\* an empty list was given, with bin count 0, and the chart is cleared
C17_Witness ==
    /\ kind = "histogram" /\ ret.op = "set_data"
    /\ ret.arg[1] = Payload(<<>>) /\ ret.arg[2] = 0
    /\ ret.val = "ok" /\ hist.bins = <<>>

ProgLoaded == kind = "progress" /\ TotalItems(prog.segments) > 0

\* the arcs start at the top and follow one another in input order
ArcsConsecutive(arcs) ==
    /\ Len(arcs) = Len(prog.segments)
    /\ arcs[1].from = -(TURN \div 4)
    /\ \A k \in 1..(Len(arcs) - 1) : arcs[k + 1].from = arcs[k].to

\* every arc is its segment's share total_k / total of the angle whole, and
\* the arcs together cover whole (to one unit of rounding per arc)
ArcsShare(arcs, whole) ==
    LET total == TotalItems(prog.segments)
    IN  /\ \A k \in 1..Len(arcs) :
              Abs((arcs[k].to - arcs[k].from) * total
                  - prog.segments[k].total * whole) <= total
        /\ Abs(arcs[Len(arcs)].to - arcs[1].from - whole) <= Len(arcs)

\* the spans the hover loop of on_mouse_move walks through, as arcs from 0
HoverArcs == DonutArcs(prog.segments, SCALE, 0, -(TURN \div 4))

DonutProbes == DonutPointers \cup {<<400 * SCALE, 20 * SCALE>>}

\* sum of the totals of the first k segments
TotalBefore(k) == SumField(SubSeq(prog.segments, 1, k), LAMBDA g : g.total, 1)

\* segment k (1-based) has a span of its own and theta lies in its
\* cumulative range of the full turn
HoldsAngle(k, theta) ==
    LET total == TotalItems(prog.segments)
    IN  /\ prog.segments[k].total > 0
        /\ TotalBefore(k - 1) * TURN <= theta * total
        /\ theta * total <= TotalBefore(k) * TURN

\* the pointer is at a distance within [inner_radius, outer_radius]
BandHolds(p) ==
    LET dx == p[1] - config.width \div 2
        dy == p[2] - config.height \div 2
        d2 == (dx \div SCALE) * dx + (dy \div SCALE) * dy
    IN  /\ (InnerRadius(config) \div SCALE) * InnerRadius(config) <= d2
        /\ d2 <= (OuterRadius(config) \div SCALE) * OuterRadius(config)

\* C19: a pointer in the band over data with a positive total gets the
\* segment whose cumulative angular range contains its angle, never a segment
\* of zero span; a pointer outside the band, or over empty or zero-total
\* data, gets a miss.
C19_RadialHitTest ==
    kind = "progress" =>
        \A p \in DonutProbes :
            LET r == ProgMouseMove(prog, config, p[1], p[2]).val
                theta == PointerAngle(p[1] - config.width \div 2,
                                      p[2] - config.height \div 2)
            IN  IF BandHolds(p) /\ TotalItems(prog.segments) > 0
                THEN /\ r.hit
                     /\ \E k \in 1..Len(prog.segments) :
                            /\ r.element_id = <<prog.segments[k].id>>
                            /\ HoldsAngle(k, theta)
                ELSE r = Miss

\* the largest offset the claim allows: (rows - visible_rows) * row_height,
\* or 0 when that is negative or there is no row
ScrollLimit ==
    LET plot_height == config.height - config.padding.top - config.padding.bottom
        rows        == Len(heat.data)
    IN  IF rows = 0 THEN 0
        ELSE Max(0, Rnd((rows - heat.visible_rows) * plot_height,
                        Min(heat.visible_rows, rows)))

\* C20: the scroll offset of the heatmap is at least 0 and at most
\* max(0, (row count - visible rows) * row height) after any sequence of
\* set_data and on_scroll calls.
C20_ScrollWithinBounds ==
    kind = "heatmap" => (0 <= heat.scroll_offset /\ heat.scroll_offset <= ScrollLimit)

\* an on_scroll far past the end of a list longer than visible_rows stops at
\* the positive limit
C20_Witness ==
    /\ kind = "heatmap" /\ ret.op = "on_scroll"
    /\ Len(heat.data) > heat.visible_rows
    /\ ret.arg[1] = 1000000 * SCALE
    /\ heat.scroll_offset = ScrollLimit /\ ScrollLimit > 0

\* pointer abscissae and ordinates tried against every state of the timeline
TimelineProbeXs == {p[1] : p \in PlotPointers}
                       \cup {29 * SCALE, 30 * SCALE, 111 * SCALE, 112 * SCALE}
TimelineProbeYs == {0, 100 * SCALE, 300 * SCALE}

\* the lowest index whose point projects to the pixel px
FirstAt(px) ==
    CHOOSE j \in 0..(Len(tl.data) - 1) :
        /\ ProjectX(tl, config, j) = px
        /\ \A h \in 0..(j - 1) : ProjectX(tl, config, h) # px

\* a pointer at the projected pixel of a point gets a hit with the index of
\* the first point at that pixel
HitAtPixel(i, y) ==
    LET px == ProjectX(tl, config, i)
        r  == TlMouseMove(tl, config, px, y).val
    IN  r.hit /\ r.data.index = FirstAt(px)

\* a pointer more than 30 px along the time axis from every projected point
\* gets a miss, and the pointer's y has no effect
FarMissesAndYIgnored ==
    /\ \A x \in TimelineProbeXs, y \in TimelineProbeYs :
          (\A i \in 0..(Len(tl.data) - 1) :
               Abs(ProjectX(tl, config, i) - x) > 30 * SCALE)
             => TlMouseMove(tl, config, x, y).val = Miss
    /\ \A x \in TimelineProbeXs, y1, y2 \in TimelineProbeYs :
          TlMouseMove(tl, config, x, y1) = TlMouseMove(tl, config, x, y2)

\* C21 (as stated): in the timeline every point of every non-empty data set
\* has a projected pixel, and a pointer whose x is that pixel gets a hit with
\* the index of the first point at that pixel; a pointer more than 30 px
\* along the time axis from every projected point gets a miss; the pointer's
\* y has no effect.
C21_TimelineHitTest ==
    kind = "timeline" =>
        /\ \A i \in 0..(Len(tl.data) - 1), y \in TimelineProbeYs :
              ~IsNaN(ProjectX(tl, config, i)) /\ HitAtPixel(i, y)
        /\ FarMissesAndYIgnored

\* C21 (amended): the same for every data set whose time range is wider than
\* zero; when all timestamps are equal (a single point included) no point
\* has a projected pixel and every pointer gets a miss that leaves the chart
\* as it was.
C21_TimelineHitTestOnSpan ==
    kind = "timeline" =>
        /\ IF tl.time_range[2] > tl.time_range[1]
           THEN \A i \in 0..(Len(tl.data) - 1), y \in TimelineProbeYs :
                    ~IsNaN(ProjectX(tl, config, i)) /\ HitAtPixel(i, y)
           ELSE \A x \in TimelineProbeXs, y \in TimelineProbeYs :
                    TlMouseMove(tl, config, x, y) = [chart |-> tl, val |-> Miss]
        /\ FarMissesAndYIgnored

\* on_mouse_move at the pixel shared by the first two of four points returned
\* the first of them
C21_Witness ==
    /\ kind = "timeline" /\ ret.op = "on_mouse_move"
    /\ Len(tl.data) = 4
    /\ ret.arg[1] = ProjectX(tl, config, 1)
    /\ ret.val.hit /\ ret.val.data.index = 0 /\ tl.hovered_point = 0

\* the two shapes of a hit-test result
IsMiss(r) ==
    /\ ~r.hit /\ r.element_id = <<>> /\ r.element_type = "none" /\ r.data = NoData
IsHit(r) ==
    /\ r.hit /\ Len(r.element_id) = 1 /\ r.element_type # "none" /\ r.data # NoData

\* the result on_mouse_move gives for pointer p on the chart of this instance
MoveResult(p) ==
    CASE kind = "network"   -> NetMouseMove(net, p[1], p[2])
      [] kind = "histogram" -> HistMouseMove(hist, config, p[1], p[2])
      [] kind = "progress"  -> ProgMouseMove(prog, config, p[1], p[2])
      [] kind = "heatmap"   -> HeatMouseMove(heat, p[1], p[2])
      [] kind = "timeline"  -> TlMouseMove(tl, config, p[1], p[2])

\* C22: every result an on_mouse_move handler returns, on any chart and in
\* any state, is a miss (hit false, no element id, type tag "none", no
\* payload) or a hit (hit true, an element id, another type tag, a payload).
C22_HitOrMiss ==
    /\ (ret.op = "on_mouse_move" /\ ~panicked) => (IsMiss(ret.val) \/ IsHit(ret.val))
    /\ (kind # "none" /\ ~panicked) =>
           \A p \in Pointers \cup PlotPointers \cup DonutPointers :
               LET r == MoveResult(p)
               IN  (kind = "network" => ~r.panic)
                      => (IsMiss(r.val) \/ IsHit(r.val))

\* a chart other than the network graph returned a hit, and a miss
C22_Witness ==
    /\ kind = "heatmap" /\ ret.op = "on_mouse_move"
    /\ IsHit(ret.val) /\ ret.val.element_type = "heatmap_cell"
    /\ IsMiss(MoveResult(<<30 * SCALE, 100 * SCALE>>).val)

\* the chart of this instance holds no data
HoldsNoData ==
    CASE kind = "network"   -> Len(net.nodes) = 0
      [] kind = "histogram" -> hist.total_count = 0
      [] kind = "progress"  -> Len(prog.segments) = 0
      [] kind = "heatmap"   -> Len(heat.data) = 0
      [] kind = "timeline"  -> Len(tl.data) = 0
      [] OTHER              -> FALSE

\* C23: on every chart, a render while the chart holds no data returns ok
\* when the surface resolves and draws the explicit empty state of the chart.
C23_EmptyStateDrawn ==
    (HoldsNoData /\ ~panicked) =>
        /\ RenderResult(TRUE).val = "ok"
        /\ \E k \in 1..Len(RenderResult(TRUE).drawn) :
               RenderResult(TRUE).drawn[k] = "empty_state"

AuxSetters == {"set_physics", "set_variance_threshold", "set_events",
               "set_granularity", "set_show_cumulative", "set_center_label"}

\* C24: an auxiliary setter changes only the configuration value it names:
\* every other field of its chart, the other charts, the generator seed and
\* the halting cause of the simulation are as before the call.
C24_SettersKeepLayout ==
    [][ret'.op \in AuxSetters =>
          /\ config' = config /\ seed' = seed /\ halt' = halt /\ hist' = hist
          /\ [net' EXCEPT !.repulsion_strength = net.repulsion_strength,
                           !.attraction_strength = net.attraction_strength,
                           !.damping = net.damping] = net
          /\ [heat' EXCEPT !.variance_threshold = heat.variance_threshold] = heat
          /\ [tl' EXCEPT !.events = tl.events, !.granularity = tl.granularity,
                          !.show_cumulative = tl.show_cumulative] = tl
          /\ [prog' EXCEPT !.center_label = prog.center_label] = prog
          /\ (ret'.op # "set_physics" => net' = net)
          /\ (ret'.op # "set_variance_threshold" => heat' = heat)
          /\ (ret'.op # "set_center_label" => prog' = prog)
          /\ (ret'.op = "set_events" => tl'.granularity = tl.granularity
                                          /\ tl'.show_cumulative = tl.show_cumulative)
          /\ (ret'.op = "set_granularity" => tl'.events = tl.events
                                          /\ tl'.show_cumulative = tl.show_cumulative)
          /\ (ret'.op = "set_show_cumulative" => tl'.events = tl.events
                                          /\ tl'.granularity = tl.granularity)
          /\ (ret'.op \in {"set_physics", "set_variance_threshold",
                            "set_center_label"} => tl' = tl)]_vars

\* set_physics on a loaded graph whose simulation has stopped, with constants
\* other than the ones in force
C24_Witness ==
    /\ NetCalled("set_physics")
    /\ Len(net.nodes) > 0 /\ ~net.simulation_running
    /\ net.repulsion_strength = 0

\* distance of the only node from the canvas centre
CentreDistance ==
    Hypot(net.nodes[1].x - CenterX(config), net.nodes[1].y - CenterY(config))

\* C25: with one isolated node and no edge, the simulation does not settle
\* while the node is more than one pixel from the canvas centre.
C25_IsolatedNodeReachesCentre ==
    (/\ kind = "network" /\ Len(net.nodes) = 1 /\ Len(net.edges) = 0
     /\ halt = "settle" /\ ~net.simulation_running)
        => CentreDistance <= SCALE

\* an index of the current node list
ValidIndex(i) == i \in 0..(Len(net.nodes) - 1)

\* C26: dragging_node and hovered_node are None or an index of the current
\* node list, and every member of selected_nodes is such an index, also
\* after a set_data that shrinks or empties the list.
C26_IndicesValid ==
    kind = "network" =>
        /\ net.dragging_node # None => ValidIndex(net.dragging_node)
        /\ net.hovered_node # None => ValidIndex(net.hovered_node)
        /\ \A k \in 1..Len(net.selected_nodes) : ValidIndex(net.selected_nodes[k])

\* C27: a node whose fixed flag is set is the node dragging_node designates,
\* and when on_mouse_up has returned no node is fixed.
C27_FixedOnlyWhileDragged ==
    kind = "network" =>
        /\ \A i \in 1..Len(net.nodes) :
              net.nodes[i].fixed => net.dragging_node = i - 1
        /\ (ret.op = "on_mouse_up" /\ ~panicked) =>
              \A i \in 1..Len(net.nodes) : ~net.nodes[i].fixed

\* the repulsion on a pair of nodes is defined and no larger than the
\* repulsion strength
ForceBounded(ni, nj, rep) ==
    LET f == PairForce(ni, nj, rep)
    IN  /\ ~IsNaN(f[1]) /\ ~IsNaN(f[2])
        /\ Hypot(f[1], f[2]) <= rep

\* C28: for every pair of nodes of the graph, coincident nodes included, the
\* repulsion that step_simulation computes is defined and its magnitude is
\* at most repulsion_strength.
C28_RepulsionBounded ==
    kind = "network" =>
        \A i \in 1..Len(net.nodes), j \in 1..Len(net.nodes) :
            i < j => ForceBounded(net.nodes[i], net.nodes[j],
                                  net.repulsion_strength)

\* C29: a step_simulation called while the simulation is not running or the
\* node list is empty returns false and changes nothing of the chart, and a
\* stopped simulation runs again only by toggle_simulation or set_data.
C29_StoppedStepIsNoOp ==
    [][kind = "network" =>
         /\ (/\ ret'.op = "step_simulation"
             /\ ~net.simulation_running \/ Len(net.nodes) = 0)
               => /\ ret'.val = FALSE
                  /\ net' = net
                  /\ UNCHANGED <<instance, others, seed, panicked, halt>>
         /\ (~net.simulation_running /\ net'.simulation_running)
               => ret'.op \in {"toggle_simulation", "set_data"}]_vars

\* step_simulation has returned false on a loaded graph that was paused
C29_Witness ==
    /\ NetCalled("step_simulation")
    /\ ret.val = FALSE
    /\ halt = "toggle"
    /\ ~net.simulation_running
    /\ Len(net.nodes) > 0

\* C30: the summary that on_click returns lists the ids of the nodes that
\* are selected after the click, in the order of selected_nodes, in single
\* and multi mode, on a node and on empty space.
C30_SummaryIsSelection ==
    (NetCalled("on_click") /\ ~panicked) =>
        /\ DOMAIN ret.val.selected = 1..Len(net.selected_nodes)
        /\ \A k \in 1..Len(net.selected_nodes) :
              /\ ValidIndex(net.selected_nodes[k])
              /\ ret.val.selected[k] = net.nodes[net.selected_nodes[k] + 1].id

\* the element id the stored hover of this chart designates: <<>> when no
\* hover is stored
HoverId ==
    CASE kind = "network" ->
             IF net.hovered_node = None THEN <<>>
             ELSE IF net.hovered_node >= Len(net.nodes) THEN <<"stale">>
             ELSE <<net.nodes[net.hovered_node + 1].id>>
      [] kind = "histogram" ->
             IF hist.hovered_bin = None THEN <<>>
             ELSE <<"bin-" \o ToString(hist.hovered_bin)>>
      [] kind = "progress" ->
             IF prog.hovered_segment = None THEN <<>>
             ELSE IF prog.hovered_segment >= Len(prog.segments) THEN <<"stale">>
             ELSE <<prog.segments[prog.hovered_segment + 1].id>>
      [] kind = "heatmap" ->
             IF heat.hovered_cell = <<>> THEN <<>>
             ELSE IF heat.hovered_cell[1] >= Len(heat.data) THEN <<"stale">>
             ELSE <<heat.data[heat.hovered_cell[1] + 1].application_id
                      \o "-" \o ToString(heat.hovered_cell[2])>>
      [] kind = "timeline" ->
             IF tl.hovered_point = None THEN <<>>
             ELSE <<"point-" \o ToString(tl.hovered_point)>>
      [] OTHER -> <<>>

\* C31: when on_mouse_move has returned and no drag is in progress, the
\* chart stores a hovered element exactly when the result is a hit, and it is
\* the element the result names; after a miss no hover is stored.
C31_HoverFollowsResult ==
    (/\ ret.op = "on_mouse_move"
     /\ ~panicked
     /\ kind = "network" => net.dragging_node = None)
        => /\ ret.val.hit <=> HoverId # <<>>
           /\ ret.val.element_id = HoverId

\* the (row, col) pairs of the layout of the current data and scroll offset:
\* rows start .. min(start + min(visible_rows, row count) + 1, row count)
\* with start = floor(scroll_offset / row height), and cols columns each
LayoutOf(cols) ==
    LET rows        == Len(heat.data)
        row_count   == Min(heat.visible_rows, rows)
        plot_height == config.height - config.padding.top - config.padding.bottom
        start       == IF row_count = 0 THEN 0
                       ELSE (heat.scroll_offset * row_count) \div plot_height
        end         == Min(start + row_count + 1, rows)
        shown       == Max(end - start, 0)
    IN  [k \in 1..(shown * cols) |->
            <<start + ((k - 1) \div cols), (k - 1) % cols>>]

\* the (row, col) pairs of the materialized cells, in order
CellGrid ==
    [k \in 1..Len(heat.cell_positions) |->
        <<heat.cell_positions[k].row, heat.cell_positions[k].col>>]

\* the maximum score-list length of the current data
MaxScoreLength ==
    MaxOf([k \in 1..Len(heat.data) |-> Len(heat.data[k].scores)], 1)

PositionsFinite ==
    \A k \in 1..Len(net.nodes) : ~IsNaN(net.nodes[k].x) /\ ~IsNaN(net.nodes[k].y)

\* where the centre of the node bounding box lands on the canvas, per axis
BoxCentreOnCanvas ==
    LET xs == [k \in 1..Len(net.nodes) |-> net.nodes[k].x]
        ys == [k \in 1..Len(net.nodes) |-> net.nodes[k].y]
    IN  <<FAdd(net.pan_x,
               FMul(net.zoom, FScale(FAdd(FoldMin(xs, 1), FoldMax(xs, 1)), 1, 2))),
          FAdd(net.pan_y,
               FMul(net.zoom, FScale(FAdd(FoldMin(ys, 1), FoldMax(ys, 1)), 1, 2)))>>

\* min(width / content width, height / content height) * 0.9 within the
\* zoom bounds of on_zoom
FittedZoom ==
    LET xs == [k \in 1..Len(net.nodes) |-> net.nodes[k].x]
        ys == [k \in 1..Len(net.nodes) |-> net.nodes[k].y]
        content_width  == FAdd(FSub(FoldMax(xs, 1), FoldMin(xs, 1)), 100 * SCALE)
        content_height == FAdd(FSub(FoldMax(ys, 1), FoldMin(ys, 1)), 100 * SCALE)
    IN  FClamp(FScale(FMin(FDiv(config.width, content_width),
                           FDiv(config.height, content_height)), 9, 10),
               30, 300)

\* C33: after fit_to_content on a non-empty graph the zoom is
\* min(width / content width, height / content height) * 0.9 clamped to the
\* zoom bounds, and the centre of the node bounding box maps to the centre
\* of the canvas (to one pixel).
C33_FitCentresContent ==
    (NetCalled("fit_to_content") /\ Len(net.nodes) > 0 /\ PositionsFinite) =>
        /\ net.zoom = FittedZoom
        /\ Abs(BoxCentreOnCanvas[1] - CenterX(config)) <= SCALE
        /\ Abs(BoxCentreOnCanvas[2] - CenterY(config)) <= SCALE

\* C34: the completed arc that draw_donut draws for a segment is not longer
\* than the segment's span, whatever its completed and total counts.
C34_CompletedWithinSpan ==
    (kind = "progress" /\ TotalItems(prog.segments) > 0) =>
        \A i \in 0..(Len(prog.segments) - 1) :
            /\ CompletedAngle(prog.segments, i, prog.animation_progress) >= 0
            /\ CompletedAngle(prog.segments, i, prog.animation_progress)
                   <= SegmentAngle(prog.segments, i, prog.animation_progress)

\* the average of the variance values of the records of data that fall in
\* bin b (0-based) of bin_count bins; 0 when none of them has a value
MeanVariance(data, bin_count, b) ==
    LET valued == SelectSeq(data, LAMBDA d : /\ BinIdx(Pct(d), bin_count) = b
                                             /\ d.variance # NoValue)
    IN  IF Len(valued) = 0 THEN 0
        ELSE Rnd(SumVariance(data, bin_count, b, 1), Len(valued))

\* C35: after a successful histogram set_data on a non-empty list, each
\* bin's avg_variance is the average of the variance values of the records
\* of the bin, 0 for a bin without a variance value.
C35_AvgVarianceIsMean ==
    (/\ kind = "histogram" /\ ret.op = "set_data" /\ ret.val = "ok"
     /\ Len(ret.arg[1].items) > 0)
        => \A b \in 1..Len(hist.bins) :
              hist.bins[b].avg_variance
                  = MeanVariance(ret.arg[1].items, ret.arg[2], b - 1)

\* C36: the flaggedCount of get_stats is the number of applications that
\* get_flagged returns, for every data set and variance threshold.
C36_FlaggedCountsAgree ==
    kind = "heatmap" =>
        HeatGetStats(heat).flaggedCount = Len(HeatGetFlagged(heat))

\* the x coordinates that render projects from timestamps: none when the
\* data is empty, else those of the event markers, the bars and the line
TlProjected ==
    IF Len(tl.data) = 0 THEN <<>>
    ELSE TlDrawEvents(tl, config) \o TlDrawBars(tl, config)
         \o (IF tl.show_cumulative THEN TlDrawCumulativeLine(tl, config) ELSE <<>>)

TlDegenerate == Len(tl.data) = 0 \/ tl.time_range[2] - tl.time_range[1] <= 0

\* C37: while the timeline holds no data or its time range has zero width,
\* on_mouse_move returns a miss for every pointer, render projects no bar,
\* line point or event marker, and no projected coordinate is ever the
\* result of a division by the zero time span.
C37_DegenerateTimelineGuarded ==
    kind = "timeline" =>
        /\ \A k \in 1..Len(TlProjected) : ~IsNaN(TlProjected[k])
        /\ TlDegenerate =>
              /\ TlProjected = <<>>
              /\ \A p \in PlotPointers :
                    TlMouseMove(tl, config, p[1], p[2]).val = Miss

\* on_mouse_move has returned a miss over a single point with events set, or
\* over an empty data set that followed one with a positive time span
C37_Witness ==
    /\ kind = "timeline"
    /\ ret.op = "on_mouse_move"
    /\ ~ret.val.hit
    /\ \/ Len(tl.data) = 1 /\ Len(tl.events) > 0
       \/ Len(tl.data) = 0 /\ tl.time_range[2] > tl.time_range[1]


-----------------------------------------------------------------------------

\* a configuration of the given canvas size with the default padding
ConfigSized(width, height) ==
    [ConfigDefault EXCEPT !.width = width, !.height = height]

\* canvases whose padding uses up the whole width (plot width 0), more than
\* the width (plot width -50) or the whole height (plot height 0)
NarrowConfigs ==
    {ConfigSized(100 * SCALE, 400 * SCALE), ConfigSized(50 * SCALE, 400 * SCALE),
     ConfigSized(800 * SCALE, 100 * SCALE)}

\* a histogram or a heatmap just constructed on a narrow canvas
InitNarrow ==
    /\ kind \in {"histogram", "heatmap"}
    /\ config \in NarrowConfigs
    /\ net = NetNew
    /\ hist = HistNew
    /\ prog = ProgNew
    /\ heat = HeatNew
    /\ tl = TlNew
    /\ seed = SeedInit
    /\ ret = Call("new", <<>>, "ok")
    /\ panicked = FALSE
    /\ halt = "none"
    /\ loads = 0
    /\ steps = 0
    /\ events = 0

NarrowNext ==
    \/ HistogramSetData
    \/ HistogramOnMouseMove
    \/ HeatmapSetData
    \/ OnScroll
    \/ HeatmapOnMouseMove
    \/ SetVarianceThreshold

SpecNarrow == InitNarrow /\ [][NarrowNext]_vars

PlotEmpty(cfg) ==
    \/ cfg.width - cfg.padding.left - cfg.padding.right <= 0
    \/ cfg.height - cfg.padding.top - cfg.padding.bottom <= 0

\* C38: whatever the configuration, every heatmap cell has a width and a
\* height of at least 0, and a histogram whose plot area is empty reports no
\* bin for any pointer.
C38_PlotDimensionsGuarded ==
    /\ kind = "heatmap" =>
          \A k \in 1..Len(heat.cell_positions) :
             /\ heat.cell_positions[k].width >= 0
             /\ heat.cell_positions[k].height >= 0
    /\ (kind = "histogram" /\ ret.op = "on_mouse_move" /\ PlotEmpty(config)) =>
          IsMiss(ret.val)


-----------------------------------------------------------------------------

\* the arc draw_donut gives segment k (1-based) holds the angle theta, which
\* on_mouse_move measures clockwise from the top where draw_donut starts
DrawnAt(k, theta) ==
    /\ k <= Len(DrawDonut(prog))
    /\ DrawDonut(prog)[k].from + TURN \div 4 <= theta
    /\ theta <= DrawDonut(prog)[k].to + TURN \div 4

\* C39: in every state of the progress tracker, also while the entry
\* animation is running, the segment on_mouse_move reports for a pointer is
\* the segment whose drawn arc holds the pointer's angle.
C39_HoverMatchesDrawing ==
    kind = "progress" =>
        \A p \in DonutProbes :
            LET r == ProgMouseMove(prog, config, p[1], p[2]).val
                theta == PointerAngle(p[1] - config.width \div 2,
                                      p[2] - config.height \div 2)
            IN  r.hit =>
                   \E k \in 1..Len(prog.segments) :
                      /\ r.element_id = <<prog.segments[k].id>>
                      /\ DrawnAt(k, theta)


-----------------------------------------------------------------------------

\* pointers tried against every state of the histogram: those the model
\* moves to, the corners of the plot area of the default configuration, and
\* pointers just above, below and right of it
HistProbes ==
    PlotPointers
    \cup {<<60 * SCALE, 40 * SCALE>>, <<759 * SCALE, 340 * SCALE>>,
          <<400 * SCALE, 39 * SCALE>>, <<400 * SCALE, 341 * SCALE>>,
          <<761 * SCALE, 100 * SCALE>>}

\* left <= x <= width - right and top <= y <= height - bottom
InsidePlot(p) ==
    /\ config.padding.left <= p[1]
    /\ p[1] <= config.width - config.padding.right
    /\ config.padding.top <= p[2]
    /\ p[2] <= config.height - config.padding.bottom

\* floor((x - left) / plot_width * bin count)
BinUnder(p) ==
    ((p[1] - config.padding.left) * Len(hist.bins))
        \div (config.width - config.padding.left - config.padding.right)

\* C40: over a histogram with at least one bin and a positive plot width,
\* every pointer inside the plot area, bounds included, gets a hit naming
\* bin floor((x - left) / plot_width * bin count), and every pointer outside
\* gets a miss.
C40_EveryPlotPointerHits ==
    (/\ kind = "histogram"
     /\ Len(hist.bins) >= 1
     /\ config.width - config.padding.left - config.padding.right > 0) =>
        \A p \in HistProbes :
            LET r == HistMouseMove(hist, config, p[1], p[2]).val
            IN  IF InsidePlot(p)
                THEN /\ r.hit
                     /\ r.element_id = <<"bin-" \o ToString(BinUnder(p))>>
                     /\ r.data.binIndex = BinUnder(p)
                ELSE IsMiss(r)

============================================================================
